---- MODULE Spec2Model ----
(***************************************************************************)
(* Chat Hub attachment handling: ChatHubAttachmentService and               *)
(* ChatHubKnowledgeItemService, with the binary store (BinaryDataService)   *)
(* and the repositories as collaborators that answer calls in flight.       *)
(*                                                                         *)
(* One request runs at a time (pc = "idle" between requests).  Every        *)
(* `await` of the code is a suspension point: the step that issues a call   *)
(* puts it in inFlight, and a separate step of the collaborator completes   *)
(* it and resumes the request.                                              *)
(***************************************************************************)
EXTENDS Integers, Sequences, FiniteSets, TLC

VARIABLES
    mode,               \* binary data mode of the deployment
    files,              \* ids whose bytes are present in the binary store
    knowledgeItems,     \* rows of chat_hub_knowledge_items
    messages,           \* rows of the chat message table
    calls,              \* requests started so far (source of fresh ids)
    op,                 \* the running request's entry point
    pc,                 \* its position
    args,               \* its arguments
    i,                  \* for-of position in `attachments`
    totalSize,          \* local totalSize
    storedAttachments,  \* local storedAttachments
    storedAttachment,   \* local storedAttachment (createKnowledgeItem)
    error,              \* the caught `error` of createKnowledgeItem
    found,              \* the `attachment` a retrieval has looked up
    toDelete,           \* the `attachments` parameter of deleteAttachments
    outcome,            \* what the request gave its caller
    inFlight,           \* collaborator calls issued and not yet returned
    events,             \* collaborator calls and returns of this request
    filesAtCall,        \* `files` when the request started
    modal,              \* KnowledgeItemsSelectorModal: its props and refs
    page,               \* the knowledge-items page: its refs
    handlers            \* the page's event handlers that are awaiting

vars == <<mode, files, knowledgeItems, messages, calls, op, pc, args, i,
          totalSize, storedAttachments, storedAttachment, error, found,
          toDelete, outcome, inFlight, events, filesAtCall, modal, page,
          handlers>>

frontend == <<modal, page, handlers>>
persistent == <<mode, knowledgeItems, messages, frontend>>
smaLocals == <<i, totalSize, storedAttachments>>
ckiLocals == <<storedAttachment, error>>
hubLocals == <<found, toDelete>>

----------------------------------------------------------------------------
(* Bounds of the model *)

MaxBatch == 3
MaxCalls == 2

----------------------------------------------------------------------------
(* Strings *)

\* text.startsWith(prefix)
StartsWith(text, prefix) ==
    Len(text) >= Len(prefix) /\ SubSeq(text, 1, Len(prefix)) = prefix

EndsWith(text, suffix) ==
    /\ Len(text) >= Len(suffix)
    /\ SubSeq(text, Len(text) - Len(suffix) + 1, Len(text)) = suffix

\* text.includes(part)
Includes(text, part) ==
    \E k \in 0..(Len(text) - Len(part)) : SubSeq(text, k + 1, k + Len(part)) = part

CharAt(text, k) == SubSeq(text, k, k)

\* text.split(separator), for a separator of one character
RECURSIVE Split(_, _)
Split(text, separator) ==
    IF ~Includes(text, separator)
    THEN <<text>>
    ELSE LET k == CHOOSE n \in 1..Len(text) :
                      /\ CharAt(text, n) = separator
                      /\ \A j \in 1..(n - 1) : CharAt(text, j) # separator
         IN  <<SubSeq(text, 1, k - 1)>>
                 \o Split(SubSeq(text, k + 1, Len(text)), separator)

\* segments.pop()
Pop(segments) == segments[Len(segments)]

\* The text without the characters of a set.
RECURSIVE Without(_, _)
Without(text, chars) ==
    IF text = ""
    THEN ""
    ELSE (IF Head(text) \in chars THEN "" ELSE Head(text)) \o Without(Tail(text), chars)

UpperCaseLetters == "ABCDEFGHIJKLMNOPQRSTUVWXYZ"

LowerCaseLetters == "abcdefghijklmnopqrstuvwxyz"

\* A character with the letters of `from` replaced by those of `to`.
Recase(char, from, to) ==
    IF \E k \in 1..Len(from) : CharAt(from, k) = char
    THEN CharAt(to, CHOOSE k \in 1..Len(from) : CharAt(from, k) = char)
    ELSE char

\* text.toLowerCase()
RECURSIVE ToLowerCase(_)
ToLowerCase(text) ==
    IF text = ""
    THEN ""
    ELSE Recase(Head(text), UpperCaseLetters, LowerCaseLetters)
             \o ToLowerCase(Tail(text))

\* text.toUpperCase()
RECURSIVE ToUpperCase(_)
ToUpperCase(text) ==
    IF text = ""
    THEN ""
    ELSE Recase(Head(text), LowerCaseLetters, UpperCaseLetters)
             \o ToUpperCase(Tail(text))

\* segments.join(separator)
RECURSIVE Join(_, _)
Join(segments, separator) ==
    IF segments = <<>> THEN ""
    ELSE IF Len(segments) = 1 THEN segments[1]
    ELSE segments[1] \o separator \o Join(Tail(segments), separator)

\* list.slice(0, n)
Slice(list, n) == SubSeq(list, 1, IF Len(list) < n THEN Len(list) ELSE n)

----------------------------------------------------------------------------
(* Regular expressions: the anchored patterns of KNOWN_MODELS, as sequences
   of parts *)

\* a literal
Lit(text) == [kind |-> "oneOf", alts |-> {text}]

\* (a|b|c), or a character class
OneOf(alts) == [kind |-> "oneOf", alts |-> alts]

\* \d{min,max}
Digits(min, max) == [kind |-> "digits", min |-> min, max |-> max]

\* \d+
DigitRun == [kind |-> "digitRun"]

\* (...)?
Optional(parts) == [kind |-> "optional", parts |-> parts]

RegExp(parts) == [parts |-> parts, ignoreCase |-> FALSE]

\* /.../i
RegExpIgnoreCase(parts) == [parts |-> parts, ignoreCase |-> TRUE]

DigitChars == {"0", "1", "2", "3", "4", "5", "6", "7", "8", "9"}

\* The n characters after offset p are all digits.
AllDigits(text, p, n) ==
    /\ p + n <= Len(text)
    /\ \A j \in 1..n : CharAt(text, p + j) \in DigitChars

\* The offsets at which a match of `parts` can end when it starts at one of
\* the offsets `from`.
RECURSIVE MatchEnds(_, _, _)
MatchEnds(text, parts, from) ==
    IF parts = <<>>
    THEN from
    ELSE LET part == Head(parts)
             After(p) ==
                 CASE part.kind = "oneOf" ->
                        {p + Len(a) : a \in {b \in part.alts :
                            /\ p + Len(b) <= Len(text)
                            /\ SubSeq(text, p + 1, p + Len(b)) = b}}
                   [] part.kind = "digits" ->
                        {p + n : n \in {m \in part.min..part.max : AllDigits(text, p, m)}}
                   [] part.kind = "digitRun" ->
                        {p + n : n \in {m \in 1..Len(text) : AllDigits(text, p, m)}}
                   [] part.kind = "optional" ->
                        {p} \cup MatchEnds(text, part.parts, {p})
         IN  MatchEnds(text, Tail(parts), UNION {After(p) : p \in from})

\* pattern.test(text), for a pattern anchored at both ends
RegExpTest(pattern, text) ==
    LET subject == IF pattern.ignoreCase THEN ToLowerCase(text) ELSE text
    IN  Len(subject) \in MatchEnds(subject, pattern.parts, {0})

----------------------------------------------------------------------------
(* Policy constants and inputs *)

MiB == 1024 * 1024

maxTotalSizeBytes == 200 * 1024 * 1024

maxKnowledgeItemSizeBytes == 50 * 1024 * 1024

\* Decoded byte lengths offered to storeMessageAttachments.
BatchSizes == {0, 1, 100 * MiB, 150 * MiB}

\* Decoded byte lengths offered to the knowledge-item path.
ItemSizes == {0, 10, 50 * MiB, 50 * MiB + 1}

\* The attachment lists of the messages that get saved, by decoded length.
MessageBatches == {<<>>, <<1>>, <<0, 1>>}

Sessions == {"s1", "s2"}

Users == {"u1", "u2"}

\* A ChatAttachment: the decoded length of its base64 `data`, its fileName
\* and its mimeType.
ChatAttachment(n, fileName, mimeType) ==
    [fileName |-> fileName, mimeType |-> mimeType, bytes |-> n]

\* A ChatAttachment of n bytes with an ordinary name and type.
Attachment(n) == ChatAttachment(n, "notes.txt", "text/plain")

\* File names offered to the store operations.
FileNames ==
    {"notes.txt", "archive.tar.gz", "README", "../etc/passwd", "a/b\\c.PNG",
     ".env", "draft."}

MimeTypes == {"text/plain", "image/png", ""}

NoId == 0

IdStride == MaxBatch + 1

\* The id the binary store issues for the k-th store call of request c.
FreshId(c, k) == c * IdStride + k

\* A null attachment.
Null == [null |-> TRUE]

None == [type |-> "none"]

Return(v) == [type |-> "return", value |-> v]

Throw(e) == [type |-> "throw", error |-> e]

\* new BadRequestError(`... exceeds maximum size of ${maxSizeMB} MB`)
BadRequestError(limitMB) ==
    [class |-> "BadRequest", limitMB |-> limitMB,
     message |-> "exceeds maximum size of " \o ToString(limitMB) \o " MB"]

NotFoundError(what) == [class |-> "NotFound", what |-> what]

StoreFailure == [class |-> "StoreError"]

DbFailure == [class |-> "DbError"]

NoError == [class |-> "none"]

----------------------------------------------------------------------------
(* Pure steps of ChatHubAttachmentService *)

\* Buffer.from(attachment.data, BINARY_ENCODING).length
BufferLength(att) == att.bytes

\* The base64 text of a payload: empty exactly for zero bytes.
Base64Of(att) == IF att.bytes = 0 THEN "" ELSE "base64"

AddSizeAssign(total, len) == len

\* totalSize += buffer.length
AddSize(total, len) == total + len

ExceedsTotalInclusive(total) == total >= maxTotalSizeBytes

\* totalSize > this.maxTotalSizeBytes
ExceedsTotal(total) == total > maxTotalSizeBytes

ExceedsKnowledgeItemWrongCap(len) == len > maxTotalSizeBytes

\* buffer.length > this.maxKnowledgeItemSizeBytes
ExceedsKnowledgeItem(len) == len > maxKnowledgeItemSizeBytes

MaxSizeMBDecimal(max) == max \div (1000 * 1000)

\* Math.floor(max / (1024 * 1024))
MaxSizeMB(max) == max \div (1024 * 1024)

\* Path separators and the characters file systems reject.
UnsafeChars == {"/", "\\", ":", "*", "?", "<", ">", "|"}

\* sanitizeFilename(attachment.fileName)
SanitizeFilename(fileName) ==
    LET kept == Without(fileName, UnsafeChars)
    IN  IF kept = "" THEN "untitled" ELSE kept

FileExtensionFirstDot(sanitizedFileName) ==
    IF Includes(sanitizedFileName, ".")
    THEN Split(sanitizedFileName, ".")[2]
    ELSE sanitizedFileName

\* sanitizedFileName?.split('.').pop()
FileExtension(sanitizedFileName) == Pop(Split(sanitizedFileName, "."))

\* The IBinaryData handed to the binary store.
BinaryData(att) ==
    LET sanitizedFileName == SanitizeFilename(att.fileName)
    IN  [id |-> NoId,
         data |-> Base64Of(att),
         mimeType |-> att.mimeType,
         fileName |-> sanitizedFileName,
         fileSize |-> ToString(BufferLength(att)),
         fileExtension |-> FileExtension(sanitizedFileName)]

\* The result of a retrieval, told by its `type` tag.
Retrieved(attachment, type) == [attachment |-> attachment, type |-> type]

Void == [void |-> TRUE]

RetrievalModeDataFirst(attachment) ==
    IF attachment.data # "" THEN "buffer"
    ELSE IF attachment.id # NoId THEN "stream"
    ELSE "notFound"

\* if (attachment.id) ... if (attachment.data) ... throw NotFound
RetrievalMode(attachment) ==
    IF attachment.id # NoId THEN "stream"
    ELSE IF attachment.data # "" THEN "buffer"
    ELSE "notFound"

BinaryDataIdsUnfiltered(attachments) ==
    [k \in 1..Len(attachments) |-> attachments[k].id]

\* attachments.flatMap((attachment) => (attachment.id ? [attachment.id] : []))
RECURSIVE BinaryDataIds(_)
BinaryDataIds(attachments) ==
    IF attachments = <<>>
    THEN <<>>
    ELSE (IF Head(attachments).id # NoId THEN <<Head(attachments).id>> ELSE <<>>)
            \o BinaryDataIds(Tail(attachments))

RethrownCleanupError(caught, cleanupError) ==
    IF cleanupError # NoError THEN cleanupError ELSE caught

\* catch (cleanupError) { logger.error(...) } ... throw error
Rethrown(caught, cleanupError) == caught

PushStoredFront(list, stored) == <<stored>> \o list

\* storedAttachments.push(stored)
PushStored(list, stored) == Append(list, stored)

----------------------------------------------------------------------------
(* The binary store *)

Modes == {"default", "filesystem-v2"}

\* What store() returns: inline data kept in default mode, otherwise an id
\* and the mode's name in place of the data.
StoreResult(m, id, binaryData) ==
    IF m = "default"
    THEN binaryData
    ELSE [binaryData EXCEPT !.id = id, !.data = m]

\* The bytes store() writes.
StoreWrites(m, id) == IF m = "default" THEN {} ELSE {id}

StoreCall(k, binaryData) == [fn |-> "store", index |-> k, binaryData |-> binaryData]

Log(ev) == events' = Append(events, ev)

Stores == {c \in inFlight : c.fn = "store"}

Creates == {c \in inFlight : c.fn = "createKnowledgeItem"}

Deletes == {c \in inFlight : c.fn = "deleteManyByBinaryDataId"}

Reads == {c \in inFlight : c.fn \in {"getMetadata", "getAsStream", "getAsBuffer"}}

Range(seq) == {seq[k] : k \in 1..Len(seq)}

\* A component that is not on screen.
Unmounted == [mounted |-> FALSE]

----------------------------------------------------------------------------
Init ==
    /\ mode \in Modes
    /\ files = {}
    /\ knowledgeItems = {}
    /\ messages = {}
    /\ calls = 0
    /\ op = "none"
    /\ pc = "idle"
    /\ args = [none |-> TRUE]
    /\ i = 1
    /\ totalSize = 0
    /\ storedAttachments = <<>>
    /\ storedAttachment = Null
    /\ error = NoError
    /\ found = Null
    /\ toDelete = <<>>
    /\ outcome = None
    /\ inFlight = {}
    /\ events = <<>>
    /\ filesAtCall = {}
    /\ modal = Unmounted
    /\ page = Unmounted
    /\ handlers = {}

\* A request starts: fresh locals, a fresh history.
Begin(name, a) ==
    /\ pc = "idle"
    /\ calls < MaxCalls
    /\ calls' = calls + 1
    /\ op' = name
    /\ args' = a
    /\ i' = 1
    /\ totalSize' = 0
    /\ storedAttachments' = <<>>
    /\ storedAttachment' = Null
    /\ error' = NoError
    /\ found' = Null
    /\ outcome' = None
    /\ events' = <<>>
    /\ filesAtCall' = files
    /\ UNCHANGED <<files, inFlight, persistent>>

\* The request hands `o` to its caller.
Finish(o) ==
    /\ outcome' = o
    /\ pc' = "done"

----------------------------------------------------------------------------
(* storeMessageAttachments *)

CallStoreMessageAttachments(sessionId, attachments) ==
    /\ Begin("storeMessageAttachments",
             [sessionId |-> sessionId, messageId |-> calls + 1,
              attachments |-> attachments])
    /\ toDelete' = <<>>
    /\ pc' = "sma_loop"

SmaIterateFanOut ==
    /\ pc = "sma_loop"
    /\ IF i > Len(args.attachments)
       THEN /\ pc' = "sma_await"
            /\ UNCHANGED <<totalSize, inFlight, events, outcome, i>>
       ELSE LET attachment == args.attachments[i]
                total == AddSize(totalSize, BufferLength(attachment))
            IN  /\ totalSize' = total
                /\ IF ExceedsTotal(total)
                   THEN /\ Finish(Throw(BadRequestError(MaxSizeMB(maxTotalSizeBytes))))
                        /\ UNCHANGED <<inFlight, events, i>>
                   ELSE /\ inFlight' = inFlight \cup {StoreCall(i, BinaryData(attachment))}
                        /\ Log([ev |-> "store.call", index |-> i])
                        /\ i' = i + 1
                        /\ UNCHANGED <<pc, outcome>>
    /\ UNCHANGED <<files, storedAttachments, calls, op, args, filesAtCall,
                   ckiLocals, hubLocals, persistent>>

SmaIterateRollback ==
    /\ pc = "sma_loop"
    /\ IF i > Len(args.attachments)
       THEN /\ Finish(Return(storedAttachments))
            /\ UNCHANGED <<totalSize, inFlight, events, files>>
       ELSE LET attachment == args.attachments[i]
                total == AddSize(totalSize, BufferLength(attachment))
            IN  /\ totalSize' = total
                /\ IF ExceedsTotal(total)
                   THEN /\ Finish(Throw(BadRequestError(MaxSizeMB(maxTotalSizeBytes))))
                        /\ files' = files \ {storedAttachments[k].id :
                                                k \in 1..Len(storedAttachments)}
                        /\ UNCHANGED <<inFlight, events>>
                   ELSE /\ inFlight' = inFlight \cup {StoreCall(i, BinaryData(attachment))}
                        /\ Log([ev |-> "store.call", index |-> i])
                        /\ pc' = "sma_await"
                        /\ UNCHANGED <<outcome, files>>
    /\ UNCHANGED <<i, storedAttachments, calls, op, args, filesAtCall,
                   ckiLocals, hubLocals, persistent>>

\* One turn of the for-of loop up to its await, or the return after it.
SmaIterate ==
    /\ pc = "sma_loop"
    /\ IF i > Len(args.attachments)
       THEN /\ Finish(Return(storedAttachments))
            /\ UNCHANGED <<totalSize, inFlight, events>>
       ELSE LET attachment == args.attachments[i]
                total == AddSize(totalSize, BufferLength(attachment))
            IN  /\ totalSize' = total
                /\ IF ExceedsTotal(total)
                   THEN /\ Finish(Throw(BadRequestError(MaxSizeMB(maxTotalSizeBytes))))
                        /\ UNCHANGED <<inFlight, events>>
                   ELSE /\ inFlight' = inFlight \cup {StoreCall(i, BinaryData(attachment))}
                        /\ Log([ev |-> "store.call", index |-> i])
                        /\ pc' = "sma_await"
                        /\ UNCHANGED outcome
    /\ UNCHANGED <<files, i, storedAttachments, calls, op, args, filesAtCall,
                   ckiLocals, hubLocals, persistent>>

\* binaryDataService.store resolves: the record is pushed and the loop goes on.
SmaStoreResolves ==
    /\ pc = "sma_await"
    /\ \E c \in Stores :
        LET id == FreshId(calls, c.index)
            stored == StoreResult(mode, id, c.binaryData)
        IN  /\ inFlight' = inFlight \ {c}
            /\ files' = files \cup StoreWrites(mode, id)
            /\ storedAttachments' = PushStored(storedAttachments, stored)
            /\ Log([ev |-> "store.return", index |-> c.index, stored |-> stored])
    /\ i' = i + 1
    /\ pc' = "sma_loop"
    /\ UNCHANGED <<totalSize, outcome, calls, op, args, filesAtCall,
                   ckiLocals, hubLocals, persistent>>

\* binaryDataService.store rejects: nothing is written, the error propagates.
SmaStoreRejects ==
    /\ pc = "sma_await"
    /\ \E c \in Stores :
        /\ inFlight' = inFlight \ {c}
        /\ Log([ev |-> "store.fail", index |-> c.index])
    /\ Finish(Throw(StoreFailure))
    /\ UNCHANGED <<files, smaLocals, calls, op, args, filesAtCall,
                   ckiLocals, hubLocals, persistent>>

----------------------------------------------------------------------------
(* storeKnowledgeItemAttachment *)

CallStoreKnowledgeItemAttachment(attachment) ==
    /\ Begin("storeKnowledgeItemAttachment",
             [knowledgeItemId |-> calls + 1, attachment |-> attachment])
    /\ toDelete' = <<>>
    /\ pc' = "ski_check"

SkiCheckAfterWrite ==
    /\ pc = "ski_check"
    /\ LET attachment == args.attachment
           length == BufferLength(attachment)
       IN  IF ExceedsKnowledgeItem(length)
           THEN /\ files' = files \cup StoreWrites(mode, FreshId(calls, 1))
                /\ Finish(Throw(BadRequestError(MaxSizeMB(maxKnowledgeItemSizeBytes))))
                /\ UNCHANGED <<inFlight, events>>
           ELSE /\ inFlight' = inFlight \cup {StoreCall(1, BinaryData(attachment))}
                /\ Log([ev |-> "store.call", index |-> 1])
                /\ pc' = "ski_await"
                /\ UNCHANGED <<outcome, files>>
    /\ UNCHANGED <<calls, op, args, filesAtCall, smaLocals, ckiLocals, hubLocals, persistent>>

\* The size guard, then the store call up to its await.
SkiCheck ==
    /\ pc = "ski_check"
    /\ LET attachment == args.attachment
           length == BufferLength(attachment)
       IN  IF ExceedsKnowledgeItem(length)
           THEN /\ Finish(Throw(BadRequestError(MaxSizeMB(maxKnowledgeItemSizeBytes))))
                /\ UNCHANGED <<inFlight, events>>
           ELSE /\ inFlight' = inFlight \cup {StoreCall(1, BinaryData(attachment))}
                /\ Log([ev |-> "store.call", index |-> 1])
                /\ pc' = "ski_await"
                /\ UNCHANGED outcome
    /\ UNCHANGED <<files, calls, op, args, filesAtCall, smaLocals, ckiLocals,
                   hubLocals, persistent>>

\* binaryDataService.store resolves.  Called directly, the record is the
\* result; inside createKnowledgeItem it becomes storedAttachment.
SkiStoreResolves ==
    /\ pc = "ski_await"
    /\ \E c \in Stores :
        LET id == FreshId(calls, c.index)
            stored == StoreResult(mode, id, c.binaryData)
        IN  /\ inFlight' = inFlight \ {c}
            /\ files' = files \cup StoreWrites(mode, id)
            /\ Log([ev |-> "store.return", index |-> c.index, stored |-> stored])
            /\ IF op = "createKnowledgeItem"
               THEN /\ storedAttachment' = stored
                    /\ pc' = "cki_create"
                    /\ UNCHANGED outcome
               ELSE /\ Finish(Return(stored))
                    /\ UNCHANGED storedAttachment
    /\ UNCHANGED <<error, calls, op, args, filesAtCall, smaLocals, hubLocals,
                   persistent>>

\* binaryDataService.store rejects: the error leaves both entry points.
SkiStoreRejects ==
    /\ pc = "ski_await"
    /\ \E c \in Stores :
        /\ inFlight' = inFlight \ {c}
        /\ Log([ev |-> "store.fail", index |-> c.index])
    /\ Finish(Throw(StoreFailure))
    /\ UNCHANGED <<files, calls, op, args, filesAtCall, smaLocals, ckiLocals,
                   hubLocals, persistent>>

----------------------------------------------------------------------------
(* deleteAttachments *)

CallDeleteAttachments(attachments) ==
    /\ Begin("deleteAttachments", [attachments |-> attachments])
    /\ toDelete' = attachments
    /\ pc' = "da_call"

DaCallSkippingEmpty ==
    /\ pc = "da_call"
    /\ IF BinaryDataIds(toDelete) = <<>>
       THEN /\ Finish(Return(Void))
            /\ UNCHANGED <<inFlight, events>>
       ELSE /\ inFlight' = inFlight \cup
                   {[fn |-> "deleteManyByBinaryDataId", ids |-> BinaryDataIds(toDelete)]}
            /\ Log([ev |-> "delete.call", attachments |-> toDelete,
                    ids |-> BinaryDataIds(toDelete)])
            /\ pc' = "da_await"
            /\ UNCHANGED outcome
    /\ UNCHANGED <<files, calls, op, args, filesAtCall, smaLocals, ckiLocals,
                   hubLocals, persistent>>

\* The one batched call to the binary store, up to its await.
DaCall ==
    /\ pc = "da_call"
    /\ inFlight' = inFlight \cup
           {[fn |-> "deleteManyByBinaryDataId", ids |-> BinaryDataIds(toDelete)]}
    /\ Log([ev |-> "delete.call", attachments |-> toDelete,
            ids |-> BinaryDataIds(toDelete)])
    /\ pc' = "da_await"
    /\ UNCHANGED <<files, outcome, calls, op, args, filesAtCall, smaLocals,
                   ckiLocals, hubLocals, persistent>>

\* deleteManyByBinaryDataId resolves.  In createKnowledgeItem's rollback the
\* caught creation error is then rethrown; in deleteKnowledgeItem the row is
\* deleted next.
DaResolves ==
    /\ pc = "da_await"
    /\ \E c \in Deletes :
        /\ inFlight' = inFlight \ {c}
        /\ files' = files \ Range(c.ids)
        /\ Log([ev |-> "delete.return", ids |-> c.ids])
    /\ IF op = "createKnowledgeItem"
       THEN Finish(Throw(Rethrown(error, NoError)))
       ELSE IF op = "deleteKnowledgeItem"
       THEN pc' = "dki_delete_row" /\ UNCHANGED outcome
       ELSE Finish(Return(Void))
    /\ UNCHANGED <<calls, op, args, filesAtCall, smaLocals, ckiLocals, hubLocals,
                   persistent>>

DaRejectsSwallowed ==
    /\ pc = "da_await"
    /\ \E c \in Deletes :
        /\ inFlight' = inFlight \ {c}
        /\ Log([ev |-> "delete.fail", ids |-> c.ids])
    /\ IF op = "createKnowledgeItem"
       THEN Finish(Throw(Rethrown(error, StoreFailure)))
       ELSE IF op = "deleteKnowledgeItem"
       THEN pc' = "dki_delete_row" /\ UNCHANGED outcome
       ELSE Finish(Throw(StoreFailure))
    /\ UNCHANGED <<files, calls, op, args, filesAtCall, smaLocals, ckiLocals,
                   hubLocals, persistent>>

\* deleteManyByBinaryDataId rejects: nothing is deleted.  The rollback logs
\* the failure and rethrows the creation error; elsewhere it propagates.
DaRejects ==
    /\ pc = "da_await"
    /\ \E c \in Deletes :
        /\ inFlight' = inFlight \ {c}
        /\ Log([ev |-> "delete.fail", ids |-> c.ids])
    /\ IF op = "createKnowledgeItem"
       THEN Finish(Throw(Rethrown(error, StoreFailure)))
       ELSE Finish(Throw(StoreFailure))
    /\ UNCHANGED <<files, calls, op, args, filesAtCall, smaLocals, ckiLocals,
                   hubLocals, persistent>>

----------------------------------------------------------------------------
(* createKnowledgeItem *)

CallCreateKnowledgeItem(user, attachment) ==
    /\ Begin("createKnowledgeItem",
             [user |-> user, id |-> calls + 1, attachment |-> attachment])
    /\ toDelete' = <<>>
    /\ pc' = IF attachment # Null THEN "ski_check" ELSE "cki_create"

KnowledgeItemRow(id, ownerId, attachment) ==
    [id |-> id, type |-> "attachment", ownerId |-> ownerId, attachment |-> attachment]

CreateCall(stage, knowledgeItem) ==
    [fn |-> "createKnowledgeItem", stage |-> stage, knowledgeItem |-> knowledgeItem]

CkiCreateWithEagerCleanup ==
    /\ pc = "cki_create"
    /\ inFlight' = inFlight \cup
           {CreateCall("insert",
                       KnowledgeItemRow(args.id, args.user, storedAttachment)),
            [fn |-> "deleteManyByBinaryDataId",
             ids |-> IF storedAttachment = Null THEN <<>>
                     ELSE BinaryDataIds(<<storedAttachment>>)]}
    /\ Log([ev |-> "create.call"])
    /\ pc' = "cki_await_create"
    /\ UNCHANGED <<files, outcome, calls, op, args, filesAtCall, smaLocals,
                   ckiLocals, hubLocals, persistent>>

\* The try block up to its await: knowledgeItemRepository.createKnowledgeItem.
CkiCreate ==
    /\ pc = "cki_create"
    /\ inFlight' = inFlight \cup
           {CreateCall("insert",
                       KnowledgeItemRow(args.id, args.user, storedAttachment))}
    /\ Log([ev |-> "create.call"])
    /\ pc' = "cki_await_create"
    /\ UNCHANGED <<files, outcome, calls, op, args, filesAtCall, smaLocals,
                   ckiLocals, hubLocals, persistent>>

\* The catch block up to its await: the rollback if a file was stored,
\* otherwise the rethrow.
CkiCatch(c) ==
    /\ inFlight' = inFlight \ {c}
    /\ error' = DbFailure
    /\ Log([ev |-> "create.fail", stage |-> c.stage])
    /\ IF storedAttachment # Null
       THEN /\ toDelete' = <<storedAttachment>>
            /\ pc' = "da_call"
            /\ UNCHANGED outcome
       ELSE /\ Finish(Throw(DbFailure))
            /\ UNCHANGED toDelete
    /\ UNCHANGED <<files, storedAttachment, found, calls, op, args, filesAtCall,
                   smaLocals, mode, messages, frontend>>

\* em.insert resolves: the row is in the table, findOneOrFail is next.
RepoInsertResolves ==
    /\ \E c \in Creates :
        /\ c.stage = "insert"
        /\ knowledgeItems' = knowledgeItems \cup {c.knowledgeItem}
        /\ inFlight' = (inFlight \ {c}) \cup {CreateCall("find", c.knowledgeItem)}
    /\ UNCHANGED <<files, pc, outcome, events, calls, op, args, filesAtCall,
                   smaLocals, ckiLocals, hubLocals, mode, messages,
                   frontend>>

\* em.insert rejects: no row, and the repository call rejects.
RepoInsertRejects ==
    /\ pc = "cki_await_create"
    /\ \E c \in Creates :
        /\ c.stage = "insert"
        /\ CkiCatch(c)
    /\ UNCHANGED knowledgeItems

\* em.findOneOrFail resolves with the inserted row, which is returned.
RepoFindResolves ==
    /\ pc = "cki_await_create"
    /\ \E c \in Creates :
        /\ c.stage = "find"
        /\ \E knowledgeItem \in knowledgeItems :
            /\ knowledgeItem.id = c.knowledgeItem.id
            /\ Finish(Return(knowledgeItem))
        /\ inFlight' = inFlight \ {c}
        /\ Log([ev |-> "create.return"])
    /\ UNCHANGED <<files, calls, op, args, filesAtCall, smaLocals, ckiLocals,
                   hubLocals, persistent>>

\* em.findOneOrFail rejects after the insert: the row stays in the table.
RepoFindRejects ==
    /\ pc = "cki_await_create"
    /\ \E c \in Creates :
        /\ c.stage = "find"
        /\ CkiCatch(c)
    /\ UNCHANGED knowledgeItems

----------------------------------------------------------------------------
(* The message table *)

\* The caller of storeMessageAttachments saves the message with the records
\* it got back.
SaveMessage ==
    /\ pc = "done"
    /\ op = "storeMessageAttachments"
    /\ outcome.type = "return"
    /\ \A m \in messages : m.id # args.messageId
    /\ messages' = messages \cup
           {[id |-> args.messageId, sessionId |-> args.sessionId,
             attachments |-> outcome.value]}
    /\ UNCHANGED <<frontend, mode, knowledgeItems, files, calls, op, pc, args, smaLocals,
                   ckiLocals, hubLocals, outcome, inFlight, events, filesAtCall>>

----------------------------------------------------------------------------
(* getMessageAttachment and getKnowledgeItemAttachment *)

CallGetMessageAttachment(sessionId, messageId, attachmentIndex) ==
    /\ Begin("getMessageAttachment",
             [sessionId |-> sessionId, messageId |-> messageId,
              attachmentIndex |-> attachmentIndex])
    /\ toDelete' = <<>>
    /\ pc' = "gm_find"

GmFindOneBased ==
    /\ pc = "gm_find"
    /\ LET rows == {m \in messages :
                       m.id = args.messageId /\ m.sessionId = args.sessionId}
       IN  IF rows = {}
           THEN /\ Finish(Throw(NotFoundError("Message not found")))
                /\ UNCHANGED found
           ELSE LET message == CHOOSE m \in rows : TRUE
                IN  IF args.attachmentIndex \notin DOMAIN message.attachments
                    THEN /\ Finish(Throw(NotFoundError("Attachment not found")))
                         /\ UNCHANGED found
                    ELSE /\ found' = message.attachments[args.attachmentIndex]
                         /\ pc' = "ret_dispatch"
                         /\ UNCHANGED outcome
    /\ UNCHANGED <<files, inFlight, events, toDelete, calls, op, args, filesAtCall,
                   smaLocals, ckiLocals, persistent>>

\* messageRepository.getOneById, then message.attachments?.[attachmentIndex].
GmFind ==
    /\ pc = "gm_find"
    /\ LET rows == {m \in messages :
                       m.id = args.messageId /\ m.sessionId = args.sessionId}
       IN  IF rows = {}
           THEN /\ Finish(Throw(NotFoundError("Message not found")))
                /\ UNCHANGED found
           ELSE LET message == CHOOSE m \in rows : TRUE
                IN  IF args.attachmentIndex + 1 \notin DOMAIN message.attachments
                    THEN /\ Finish(Throw(NotFoundError("Attachment not found")))
                         /\ UNCHANGED found
                    ELSE /\ found' = message.attachments[args.attachmentIndex + 1]
                         /\ pc' = "ret_dispatch"
                         /\ UNCHANGED outcome
    /\ UNCHANGED <<files, inFlight, events, toDelete, calls, op, args, filesAtCall,
                   smaLocals, ckiLocals, persistent>>

CallGetKnowledgeItemAttachment(knowledgeItemId) ==
    /\ Begin("getKnowledgeItemAttachment", [knowledgeItemId |-> knowledgeItemId])
    /\ toDelete' = <<>>
    /\ pc' = "gk_find"

\* knowledgeItemRepository.findOne({ where: { id } }), then the null check.
GkFind ==
    /\ pc = "gk_find"
    /\ LET rows == {r \in knowledgeItems : r.id = args.knowledgeItemId}
       IN  IF rows = {} \/ \A r \in rows : r.attachment = Null
           THEN /\ Finish(Throw(NotFoundError("Knowledge item attachment not found")))
                /\ UNCHANGED found
           ELSE /\ found' = (CHOOSE r \in rows : TRUE).attachment
                /\ pc' = "ret_dispatch"
                /\ UNCHANGED outcome
    /\ UNCHANGED <<files, inFlight, events, toDelete, calls, op, args, filesAtCall,
                   smaLocals, ckiLocals, persistent>>

ReadCall(fn, attachment) == [fn |-> fn, attachment |-> attachment]

\* The id / data / neither branches, each up to its first await.
RetDispatch ==
    /\ pc = "ret_dispatch"
    /\ LET kind == RetrievalMode(found)
       IN  IF kind = "stream"
           THEN /\ inFlight' = inFlight \cup {ReadCall("getMetadata", found)}
                /\ Log([ev |-> "read.call", fn |-> "getMetadata"])
                /\ pc' = "ret_await_metadata"
                /\ UNCHANGED outcome
           ELSE IF kind = "buffer"
           THEN /\ inFlight' = inFlight \cup {ReadCall("getAsBuffer", found)}
                /\ Log([ev |-> "read.call", fn |-> "getAsBuffer"])
                /\ pc' = "ret_await_buffer"
                /\ UNCHANGED outcome
           ELSE /\ Finish(Throw(NotFoundError("Attachment has no stored file")))
                /\ UNCHANGED <<inFlight, events>>
    /\ UNCHANGED <<files, calls, op, args, filesAtCall, smaLocals, ckiLocals,
                   hubLocals, persistent>>

\* The bytes a read needs are there.
Readable(attachment) == attachment.id = NoId \/ attachment.id \in files

\* getMetadata resolves; getAsStream is called next.
RetMetadataResolves ==
    /\ pc = "ret_await_metadata"
    /\ \E c \in Reads :
        /\ c.fn = "getMetadata"
        /\ Readable(c.attachment)
        /\ inFlight' = (inFlight \ {c}) \cup {ReadCall("getAsStream", c.attachment)}
    /\ Log([ev |-> "read.call", fn |-> "getAsStream"])
    /\ pc' = "ret_await_stream"
    /\ UNCHANGED <<files, outcome, calls, op, args, filesAtCall, smaLocals,
                   ckiLocals, hubLocals, persistent>>

\* getAsStream resolves: the stream-mode result.
RetStreamResolves ==
    /\ pc = "ret_await_stream"
    /\ \E c \in Reads :
        /\ c.fn = "getAsStream"
        /\ Readable(c.attachment)
        /\ inFlight' = inFlight \ {c}
    /\ Log([ev |-> "read.return", fn |-> "getAsStream"])
    /\ Finish(Return(Retrieved(found, "stream")))
    /\ UNCHANGED <<files, calls, op, args, filesAtCall, smaLocals, ckiLocals,
                   hubLocals, persistent>>

\* getAsBuffer resolves: the buffer-mode result.
RetBufferResolves ==
    /\ pc = "ret_await_buffer"
    /\ \E c \in Reads :
        /\ c.fn = "getAsBuffer"
        /\ Readable(c.attachment)
        /\ inFlight' = inFlight \ {c}
    /\ Log([ev |-> "read.return", fn |-> "getAsBuffer"])
    /\ Finish(Return(Retrieved(found, "buffer")))
    /\ UNCHANGED <<files, calls, op, args, filesAtCall, smaLocals, ckiLocals,
                   hubLocals, persistent>>

\* A read of stored bytes rejects (the bytes are gone, or the read fails):
\* the error propagates.
RetReadRejects ==
    /\ pc \in {"ret_await_metadata", "ret_await_stream", "ret_await_buffer"}
    /\ \E c \in Reads :
        /\ c.attachment.id # NoId
        /\ inFlight' = inFlight \ {c}
        /\ Log([ev |-> "read.fail", fn |-> c.fn])
    /\ Finish(Throw(StoreFailure))
    /\ UNCHANGED <<files, calls, op, args, filesAtCall, smaLocals, ckiLocals,
                   hubLocals, persistent>>

----------------------------------------------------------------------------
(* getDataUrl *)

CallGetDataUrl(binaryData) ==
    /\ Begin("getDataUrl", [binaryData |-> binaryData])
    /\ toDelete' = <<>>
    /\ pc' = "gdu_check"

\* `data:${mimeType};base64,${base64Data}`, with
\* mimeType = binaryData.mimeType || 'application/octet-stream'
DataUrl(mimeType, base64Data) ==
    "data:" \o (IF mimeType # "" THEN mimeType ELSE "application/octet-stream")
            \o ";base64," \o base64Data

\* The base64 text of the bytes getAsBuffer gives for a record: its inline
\* data, or the stored bytes its id names.
BufferBase64(binaryData) ==
    IF binaryData.id = NoId
    THEN binaryData.data
    ELSE IF binaryData.fileSize = "0" THEN "" ELSE "base64"

GduCheckAlwaysReads ==
    /\ pc = "gdu_check"
    /\ inFlight' = inFlight \cup {ReadCall("getAsBuffer", args.binaryData)}
    /\ Log([ev |-> "read.call", fn |-> "getAsBuffer"])
    /\ pc' = "gdu_await"
    /\ UNCHANGED <<files, outcome, calls, op, args, filesAtCall, smaLocals,
                   ckiLocals, hubLocals, persistent>>

\* The `data:` test: the early return, or getAsBuffer up to its await.
GduCheck ==
    /\ pc = "gdu_check"
    /\ IF StartsWith(args.binaryData.data, "data:")
       THEN /\ Finish(Return(args.binaryData.data))
            /\ UNCHANGED <<inFlight, events>>
       ELSE /\ inFlight' = inFlight \cup
                   {ReadCall("getAsBuffer", args.binaryData)}
            /\ Log([ev |-> "read.call", fn |-> "getAsBuffer"])
            /\ pc' = "gdu_await"
            /\ UNCHANGED outcome
    /\ UNCHANGED <<files, calls, op, args, filesAtCall, smaLocals, ckiLocals,
                   hubLocals, persistent>>

\* getAsBuffer resolves: the data URL is built and returned.
GduBufferResolves ==
    /\ pc = "gdu_await"
    /\ \E c \in inFlight :
        /\ c.fn = "getAsBuffer"
        /\ Readable(c.attachment)
        /\ inFlight' = inFlight \ {c}
        /\ Finish(Return(DataUrl(c.attachment.mimeType, BufferBase64(c.attachment))))
    /\ Log([ev |-> "read.return", fn |-> "getAsBuffer"])
    /\ UNCHANGED <<files, calls, op, args, filesAtCall, smaLocals, ckiLocals,
                   hubLocals, persistent>>

\* getAsBuffer rejects (the bytes are gone, or the read fails).
GduBufferRejects ==
    /\ pc = "gdu_await"
    /\ \E c \in inFlight :
        /\ c.fn = "getAsBuffer"
        /\ c.attachment.id # NoId
        /\ inFlight' = inFlight \ {c}
    /\ Log([ev |-> "read.fail", fn |-> "getAsBuffer"])
    /\ Finish(Throw(StoreFailure))
    /\ UNCHANGED <<files, calls, op, args, filesAtCall, smaLocals, ckiLocals,
                   hubLocals, persistent>>

----------------------------------------------------------------------------
(* deleteKnowledgeItem *)

CallDeleteKnowledgeItem(id, userId) ==
    /\ Begin("deleteKnowledgeItem", [id |-> id, userId |-> userId])
    /\ toDelete' = <<>>
    /\ pc' = "dki_get"

DkiGetAnyOwner ==
    /\ pc = "dki_get"
    /\ LET existing == {r \in knowledgeItems : r.id = args.id}
       IN  IF existing = {}
           THEN Finish(Throw(NotFoundError("Knowledge item not found")))
           ELSE pc' = "dka_find" /\ UNCHANGED outcome
    /\ UNCHANGED <<files, inFlight, events, calls, op, args, filesAtCall,
                   smaLocals, ckiLocals, hubLocals, persistent>>

\* knowledgeItemRepository.getOneById(id, userId), then the existence check.
DkiGet ==
    /\ pc = "dki_get"
    /\ LET existing == {r \in knowledgeItems :
                           r.id = args.id /\ r.ownerId = args.userId}
       IN  IF existing = {}
           THEN Finish(Throw(NotFoundError("Knowledge item not found")))
           ELSE pc' = "dka_find" /\ UNCHANGED outcome
    /\ UNCHANGED <<files, inFlight, events, calls, op, args, filesAtCall,
                   smaLocals, ckiLocals, hubLocals, persistent>>

DkaFindRowFirst ==
    /\ pc = "dka_find"
    /\ inFlight' = inFlight \cup
           {[fn |-> "deleteKnowledgeItem", id |-> args.id],
            [fn |-> "deleteManyByBinaryDataId",
             ids |-> BinaryDataIds(
                 LET rows == {r \in knowledgeItems : r.id = args.id}
                 IN  IF rows = {} \/ \A r \in rows : r.attachment = Null
                     THEN <<>>
                     ELSE <<(CHOOSE r \in rows : TRUE).attachment>>)]}
    /\ Log([ev |-> "row.delete.call", id |-> args.id])
    /\ pc' = "dki_await_row"
    /\ UNCHANGED <<files, outcome, calls, op, args, filesAtCall, smaLocals,
                   ckiLocals, hubLocals, persistent>>

\* deleteKnowledgeItemAttachmentById: findOne({ where: { id } }), then
\* deleteAttachments([attachment]) if the row has an attachment.
DkaFind ==
    /\ pc = "dka_find"
    /\ LET rows == {r \in knowledgeItems : r.id = args.id}
       IN  IF rows = {} \/ \A r \in rows : r.attachment = Null
           THEN /\ pc' = "dki_delete_row"
                /\ UNCHANGED toDelete
           ELSE /\ toDelete' = <<(CHOOSE r \in rows : TRUE).attachment>>
                /\ pc' = "da_call"
    /\ UNCHANGED <<files, inFlight, events, outcome, found, calls, op, args,
                   filesAtCall, smaLocals, ckiLocals, persistent>>

RowDeletes == {c \in inFlight : c.fn = "deleteKnowledgeItem"}

\* knowledgeItemRepository.deleteKnowledgeItem(id), up to its await.
DkiDeleteRow ==
    /\ pc = "dki_delete_row"
    /\ inFlight' = inFlight \cup {[fn |-> "deleteKnowledgeItem", id |-> args.id]}
    /\ Log([ev |-> "row.delete.call", id |-> args.id])
    /\ pc' = "dki_await_row"
    /\ UNCHANGED <<files, outcome, calls, op, args, filesAtCall, smaLocals,
                   ckiLocals, hubLocals, persistent>>

\* em.delete resolves: the row is gone.
RowDeleteResolves ==
    /\ pc = "dki_await_row"
    /\ \E c \in RowDeletes :
        /\ inFlight' = inFlight \ {c}
        /\ knowledgeItems' = {r \in knowledgeItems : r.id # c.id}
        /\ Log([ev |-> "row.delete.return", id |-> c.id])
    /\ Finish(Return(Void))
    /\ UNCHANGED <<files, calls, op, args, filesAtCall, smaLocals, ckiLocals,
                   hubLocals, mode, messages, frontend>>

\* em.delete rejects: the row stays, the error propagates.
RowDeleteRejects ==
    /\ pc = "dki_await_row"
    /\ \E c \in RowDeletes :
        /\ inFlight' = inFlight \ {c}
        /\ Log([ev |-> "row.delete.fail", id |-> c.id])
    /\ Finish(Throw(DbFailure))
    /\ UNCHANGED <<files, calls, op, args, filesAtCall, smaLocals, ckiLocals,
                   hubLocals, persistent>>

----------------------------------------------------------------------------
(* deleteAllMessageAttachmentsBySessionId *)

CallDeleteAllMessageAttachmentsBySessionId(sessionId) ==
    /\ Begin("deleteAllMessageAttachmentsBySessionId", [sessionId |-> sessionId])
    /\ toDelete' = <<>>
    /\ pc' = "das_load"

\* The rows of a set, in the order of their ids.
RECURSIVE OrderedById(_)
OrderedById(rows) ==
    IF rows = {}
    THEN <<>>
    ELSE LET first == CHOOSE r \in rows : \A o \in rows : r.id <= o.id
         IN  <<first>> \o OrderedById(rows \ {first})

\* messageRepository.getManyBySessionId(sessionId)
GetManyBySessionId(sessionId) ==
    OrderedById({m \in messages : m.sessionId = sessionId})

\* messages.flatMap((message) => message.attachments ?? [])
RECURSIVE FlatMapAttachments(_)
FlatMapAttachments(rows) ==
    IF rows = <<>>
    THEN <<>>
    ELSE Head(rows).attachments \o FlatMapAttachments(Tail(rows))

SessionAttachmentsUnscoped(sessionId) ==
    FlatMapAttachments(OrderedById(messages))

\* The attachments the session's delete hands to deleteAttachments.
SessionAttachments(sessionId) == FlatMapAttachments(GetManyBySessionId(sessionId))

\* The session's messages are loaded and their attachments flattened;
\* deleteAttachments takes over.
DasLoad ==
    /\ pc = "das_load"
    /\ toDelete' = SessionAttachments(args.sessionId)
    /\ pc' = "da_call"
    /\ UNCHANGED <<files, inFlight, events, outcome, found, calls, op, args,
                   filesAtCall, smaLocals, ckiLocals, persistent>>

----------------------------------------------------------------------------
(* ChatHubKnowledgeItemRepository.getManyByIdsAndUserId *)

CallGetManyByIdsAndUserId(ids, userId) ==
    /\ Begin("getManyByIdsAndUserId", [ids |-> ids, userId |-> userId])
    /\ toDelete' = <<>>
    /\ pc' = "gmi_check"

\* ids.map((id) => ({ id, ownerId: userId }))
WhereOf(ids, userId) == [k \in 1..Len(ids) |-> [id |-> ids[k], ownerId |-> userId]]

FindCall(where) == [fn |-> "find", where |-> where]

Finds == {c \in inFlight : c.fn = "find"}

\* if (ids.length === 0) return []; otherwise em.find up to its await.
GmiCheck ==
    /\ pc = "gmi_check"
    /\ IF Len(args.ids) = 0
       THEN /\ Finish(Return(<<>>))
            /\ UNCHANGED <<inFlight, events>>
       ELSE /\ inFlight' = inFlight \cup {FindCall(WhereOf(args.ids, args.userId))}
            /\ Log([ev |-> "find.call", where |-> WhereOf(args.ids, args.userId)])
            /\ pc' = "gmi_await"
            /\ UNCHANGED outcome
    /\ UNCHANGED <<files, calls, op, args, filesAtCall, smaLocals, ckiLocals,
                   hubLocals, persistent>>

SatisfiesIdOnly(row, where) ==
    \E k \in DOMAIN where : row.id = where[k].id

\* A row satisfies a `where` list when it satisfies one of its conditions.
Satisfies(row, where) ==
    \E k \in DOMAIN where :
        row.id = where[k].id /\ row.ownerId = where[k].ownerId

\* The lists that hold each row of a set once; find states no order.
Orderings(rows) ==
    {list \in [1..Cardinality(rows) -> rows] :
        \A a, b \in DOMAIN list : a # b => list[a] # list[b]}

\* em.find resolves with the rows that satisfy the conditions.
FindResolves ==
    /\ pc = "gmi_await"
    /\ \E c \in Finds :
        /\ inFlight' = inFlight \ {c}
        /\ \E list \in Orderings({r \in knowledgeItems : Satisfies(r, c.where)}) :
              /\ Log([ev |-> "find.return", rows |-> list])
              /\ Finish(Return(list))
    /\ UNCHANGED <<files, calls, op, args, filesAtCall, smaLocals, ckiLocals,
                   hubLocals, persistent>>

\* em.find rejects: the error propagates.
FindRejects ==
    /\ pc = "gmi_await"
    /\ \E c \in Finds :
        /\ inFlight' = inFlight \ {c}
        /\ Log([ev |-> "find.fail"])
    /\ Finish(Throw(DbFailure))
    /\ UNCHANGED <<files, calls, op, args, filesAtCall, smaLocals, ckiLocals,
                   hubLocals, persistent>>

----------------------------------------------------------------------------
(* KnowledgeItemsSelectorModal *)

\* What the front end leaves alone: the state of the services.
backend ==
    <<mode, files, knowledgeItems, messages, op, pc, args, smaLocals, ckiLocals,
      hubLocals, outcome, inFlight, filesAtCall>>

\* A ChatHubKnowledgeItemDto, told by its id.
KnowledgeItemDto(id) == [id |-> id]

\* new Set(items.map((item) => item.id))
IdSet(items) == {items[k].id : k \in DOMAIN items}

\* The modal as mounted with props.data.selected = selected: the immediate
\* watch has set selectedIds, loadKnowledgeItems is awaiting the fetch.
\* `toggled` remembers the ids toggled an odd number of times.
MountedModal(selected) ==
    [mounted |-> TRUE, open |-> TRUE, selected |-> selected,
     allKnowledgeItems |-> <<>>, selectedIds |-> IdSet(selected),
     isLoading |-> TRUE, toggled |-> {}]

Flip(set, id) == IF id \in set THEN set \ {id} ELSE set \cup {id}

toggleItem(itemId) ==
    /\ modal.mounted
    /\ modal.open
    /\ itemId \in IdSet(modal.allKnowledgeItems)
    /\ modal' = [modal EXCEPT !.selectedIds = Flip(@, itemId),
                              !.toggled = Flip(@, itemId)]
    /\ UNCHANGED <<backend, calls, events, page, handlers>>

\* allKnowledgeItems.value.filter((item) => selectedIds.value.has(item.id))
SelectedItems(items, ids) == SelectSeq(items, LAMBDA item : item.id \in ids)

\* props.data.onConfirm(items), noted with the refs it was made from.
OnConfirm(items) ==
    [ev |-> "onConfirm", items |-> items,
     allKnowledgeItems |-> modal.allKnowledgeItems,
     selectedIds |-> modal.selectedIds]

\* modalBus.value.emit('close')
Close(from) == [ev |-> "close", from |-> from]

handleConfirmUnfiltered ==
    /\ modal.mounted
    /\ modal.open
    /\ events' = events \o <<OnConfirm(modal.allKnowledgeItems),
                              Close("handleConfirm")>>
    /\ modal' = [modal EXCEPT !.open = FALSE]
    /\ UNCHANGED <<backend, calls, page, handlers>>

handleConfirm ==
    /\ modal.mounted
    /\ modal.open
    /\ LET selected == SelectedItems(modal.allKnowledgeItems, modal.selectedIds)
       IN  events' = events \o <<OnConfirm(selected), Close("handleConfirm")>>
    /\ modal' = [modal EXCEPT !.open = FALSE]
    /\ UNCHANGED <<backend, calls, page, handlers>>

onCancel ==
    /\ modal.mounted
    /\ modal.open
    /\ events' = Append(events, Close("onCancel"))
    /\ modal' = [modal EXCEPT !.open = FALSE]
    /\ UNCHANGED <<backend, calls, page, handlers>>

\* fetchKnowledgeItemsApi resolves: loadKnowledgeItems stores the list.
ModalFetchResolves(items) ==
    /\ modal.mounted
    /\ modal.isLoading
    /\ modal' = [modal EXCEPT !.allKnowledgeItems = items, !.isLoading = FALSE]
    /\ UNCHANGED <<backend, calls, events, page, handlers>>

\* fetchKnowledgeItemsApi rejects: the error toast, nothing is loaded.
ModalFetchRejects ==
    /\ modal.mounted
    /\ modal.isLoading
    /\ events' = Append(events, [ev |-> "toast", type |-> "error",
                                  title |-> "Failed to load knowledge items"])
    /\ modal' = [modal EXCEPT !.isLoading = FALSE]
    /\ UNCHANGED <<backend, calls, page, handlers>>

----------------------------------------------------------------------------
(* The knowledge-items page *)

\* The page once mounted and loaded, showing `items`; `picking` tells that
\* the file input's picker is open.
MountedPage(items) ==
    [mounted |-> TRUE, knowledgeItems |-> items, isLoading |-> FALSE,
     isCreating |-> FALSE, picking |-> FALSE]

\* The Add button, which takes no click while it shows isCreating as
\* loading: fileInputRef.value?.click() opens the picker.
handleClickAddItem ==
    /\ page.mounted
    /\ ~page.isCreating
    /\ ~page.picking
    /\ page' = [page EXCEPT !.picking = TRUE]
    /\ UNCHANGED <<backend, modal, handlers, calls, events>>

\* computed(() => !isCreating.value)
canAcceptFiles == ~page.isCreating

\* A toast shown by handler h.
Toast(h, type, title) == [ev |-> "toast", h |-> h, type |-> type, title |-> title]

\* A handler that has set isCreating and awaits convertFileToBinaryData for
\* the first of its files.
StartCreating(fn, fileList) ==
    /\ page' = [page EXCEPT !.isCreating = TRUE,
                            !.picking = (@ /\ fn # "handleFileSelect")]
    /\ handlers' = handlers \cup
           {[h |-> calls + 1, fn |-> fn, files |-> fileList, k |-> 1,
             awaiting |-> "convertFileToBinaryData"]}
    /\ calls' = calls + 1
    /\ events' = Append(events, [ev |-> "start", h |-> calls + 1, fn |-> fn,
                                  files |-> fileList])

\* The change event of the file input, which closes the picker: nothing
\* without a file, otherwise the first file is created.
handleFileSelect(fileList) ==
    /\ page.mounted
    /\ page.picking
    /\ calls < MaxCalls
    /\ IF Len(fileList) = 0
       THEN /\ page' = [page EXCEPT !.picking = FALSE]
            /\ UNCHANGED <<handlers, calls, events>>
       ELSE StartCreating("handleFileSelect", <<fileList[1]>>)
    /\ UNCHANGED <<backend, modal>>

onFilesDropped(fileList) ==
    /\ page.mounted
    /\ calls < MaxCalls
    /\ IF Len(fileList) = 0
       THEN UNCHANGED <<page, handlers, calls, events>>
       ELSE StartCreating("onFilesDropped", fileList)
    /\ UNCHANGED <<backend, modal>>

\* useFileDrop(canAcceptFiles, onFilesDropped): a drop or paste of files
\* reaches onFilesDropped only while files are accepted.
HandleDrop(fileList) == canAcceptFiles /\ onFilesDropped(fileList)

\* catch and finally of a handler: the error toast, isCreating reset.
CatchAndFinally(handler, failure) ==
    /\ events' = events \o
           <<[ev |-> failure, h |-> handler.h, k |-> handler.k],
             Toast(handler.h, "error", "Failed to create knowledge item")>>
    /\ page' = [page EXCEPT !.isCreating = FALSE]
    /\ handlers' = handlers \ {handler}

\* convertFileToBinaryData resolves: createKnowledgeItemApi is called.
ConvertResolves ==
    \E handler \in handlers :
        /\ handler.awaiting = "convertFileToBinaryData"
        /\ handlers' = (handlers \ {handler}) \cup
               {[handler EXCEPT !.awaiting = "createKnowledgeItemApi"]}
        /\ events' = Append(events, [ev |-> "create.call", h |-> handler.h,
                                      k |-> handler.k,
                                      file |-> handler.files[handler.k]])
        /\ UNCHANGED <<backend, modal, page, calls>>

ConvertRejects ==
    \E handler \in handlers :
        /\ handler.awaiting = "convertFileToBinaryData"
        /\ CatchAndFinally(handler, "convert.fail")
        /\ UNCHANGED <<backend, modal, calls>>

\* The title of the success toast.
SuccessTitle(handler) ==
    IF handler.fn = "handleFileSelect" \/ Len(handler.files) = 1
    THEN "Knowledge item created"
    ELSE ToString(Len(handler.files)) \o " knowledge items created"

\* createKnowledgeItemApi resolves: the new item goes to the front of the
\* list; the next file follows, or the success toast and finally.
CreateResolves ==
    \E handler \in handlers :
        /\ handler.awaiting = "createKnowledgeItemApi"
        /\ LET newItem == KnowledgeItemDto(FreshId(handler.h, handler.k))
               created == [ev |-> "create.return", h |-> handler.h,
                           k |-> handler.k, item |-> newItem]
           IN  IF handler.k < Len(handler.files)
               THEN /\ page' = [page EXCEPT !.knowledgeItems = <<newItem>> \o @]
                    /\ handlers' = (handlers \ {handler}) \cup
                           {[handler EXCEPT !.k = @ + 1,
                                            !.awaiting = "convertFileToBinaryData"]}
                    /\ events' = Append(events, created)
               ELSE /\ page' = [page EXCEPT !.knowledgeItems = <<newItem>> \o @,
                                            !.isCreating = FALSE]
                    /\ handlers' = handlers \ {handler}
                    /\ events' = events \o
                           <<created,
                             Toast(handler.h, "success", SuccessTitle(handler))>>
        /\ UNCHANGED <<backend, modal, calls>>

CreateRejectsSkippingFile ==
    \E handler \in handlers :
        /\ handler.awaiting = "createKnowledgeItemApi"
        /\ IF handler.k < Len(handler.files)
           THEN /\ handlers' = (handlers \ {handler}) \cup
                       {[handler EXCEPT !.k = @ + 1,
                                        !.awaiting = "convertFileToBinaryData"]}
                /\ events' = Append(events, [ev |-> "create.fail",
                                              h |-> handler.h, k |-> handler.k])
                /\ UNCHANGED page
           ELSE CatchAndFinally(handler, "create.fail")
        /\ UNCHANGED <<backend, modal, calls>>

\* createKnowledgeItemApi rejects.
CreateRejects ==
    \E handler \in handlers :
        /\ handler.awaiting = "createKnowledgeItemApi"
        /\ CatchAndFinally(handler, "create.fail")
        /\ UNCHANGED <<backend, modal, calls>>

----------------------------------------------------------------------------
(* The validate_model_name tool *)

\* (-\d{4}-\d{2}-\d{2})?
DateSuffix ==
    Optional(<<Lit("-"), Digits(4, 4), Lit("-"), Digits(2, 2), Lit("-"), Digits(2, 2)>>)

\* (-\d{8})?
StampSuffix == Optional(<<Lit("-"), Digits(8, 8)>>)

ClaudeFamily == OneOf({"opus", "sonnet", "haiku"})

KNOWN_MODELS ==
    [openai |->
        [models |->
            <<"gpt-5", "gpt-5.1", "gpt-5.2", "gpt-5-mini", "gpt-4.5",
              "gpt-4.5-preview", "gpt-4.1", "gpt-4.1-mini", "gpt-4.1-nano",
              "gpt-4o", "gpt-4o-mini", "gpt-4o-audio-preview", "gpt-4",
              "gpt-4-turbo", "gpt-4-turbo-preview", "gpt-3.5-turbo", "o1",
              "o1-mini", "o1-preview", "o1-pro", "o3", "o3-mini", "o3-pro",
              "o3-deep-research", "o4-mini", "o4-mini-deep-research">>,
         patterns |->
            <<RegExp(<<Lit("gpt-5"), Optional(<<Lit("."), DigitRun>>),
                       Optional(<<Lit("-mini")>>), DateSuffix>>),
              RegExp(<<Lit("gpt-4.5"), Optional(<<Lit("-preview")>>), DateSuffix>>),
              RegExp(<<Lit("gpt-4.1"), Optional(<<OneOf({"-mini", "-nano"})>>),
                       DateSuffix>>),
              RegExp(<<Lit("gpt-4o"),
                       Optional(<<OneOf({"-mini", "-audio-preview"})>>), DateSuffix>>),
              RegExp(<<Lit("gpt-4"), Optional(<<Lit("-turbo")>>),
                       Optional(<<Lit("-preview")>>), DateSuffix>>),
              RegExp(<<Lit("gpt-3.5-turbo"), DateSuffix>>),
              RegExp(<<Lit("o"), OneOf(DigitChars \ {"0"}),
                       Optional(<<OneOf({"-mini", "-preview", "-pro",
                                         "-deep-research"})>>),
                       DateSuffix>>)>>],
     anthropic |->
        [models |->
            <<"claude-opus-4", "claude-sonnet-4", "claude-sonnet-4-5",
              "claude-haiku-4", "claude-3.5-sonnet", "claude-3.5-haiku",
              "claude-3-5-sonnet", "claude-3-5-haiku", "claude-3-opus",
              "claude-3-sonnet", "claude-3-haiku">>,
         patterns |->
            <<RegExp(<<Lit("claude-"), ClaudeFamily, Lit("-"), OneOf({"3", "4"}),
                       Optional(<<Lit("-5")>>), StampSuffix>>),
              RegExp(<<Lit("claude-3"), Optional(<<Lit(".")>>),
                       Optional(<<Lit("5")>>), Lit("-"), ClaudeFamily, StampSuffix>>),
              RegExp(<<Lit("claude-3-"), ClaudeFamily, StampSuffix>>)>>],
     google |->
        [models |->
            <<"gemini-2.0-pro", "gemini-2.0-flash", "gemini-2.0-flash-lite",
              "gemini-1.5-pro", "gemini-1.5-flash", "gemini-pro",
              "gemini-pro-vision">>,
         patterns |->
            <<RegExp(<<Lit("gemini-"), DigitRun, Lit("."), DigitRun, Lit("-"),
                       OneOf({"pro", "flash", "flash-lite"}),
                       Optional(<<Lit("-"), Digits(3, 4)>>)>>),
              RegExp(<<Lit("gemini-pro"), Optional(<<Lit("-vision")>>)>>)>>],
     meta |->
        [models |-> <<"llama-4", "llama-3.3", "llama-3.2", "llama-3.1", "llama-3">>,
         patterns |->
            <<RegExpIgnoreCase(<<Lit("llama-"), OneOf({"3", "4"}),
                                 Optional(<<Lit("."), DigitRun>>),
                                 Optional(<<Lit("-"), DigitRun, Lit("b")>>),
                                 Optional(<<Lit("-instruct")>>)>>)>>],
     mistral |->
        [models |->
            <<"mistral-large", "mistral-medium", "mistral-small", "mixtral-8x7b",
              "mixtral-8x22b">>,
         patterns |->
            <<RegExp(<<Lit("mistral-"), OneOf({"large", "medium", "small"}),
                       Optional(<<Lit("-"), DigitRun>>)>>),
              RegExpIgnoreCase(<<Lit("mixtral-"), DigitRun, Lit("x"), DigitRun,
                                 Lit("b"), Optional(<<Lit("-instruct")>>)>>)>>]]

detectProvider(model) ==
    LET lowerModel == ToLowerCase(model)
    IN  IF \/ StartsWith(lowerModel, "gpt-")
           \/ /\ StartsWith(lowerModel, "o")
              /\ Len(lowerModel) >= 2
              /\ CharAt(lowerModel, 2) \in DigitChars \ {"0"}
        THEN "openai"
        ELSE IF StartsWith(lowerModel, "claude") THEN "anthropic"
        ELSE IF StartsWith(lowerModel, "gemini") THEN "google"
        ELSE IF StartsWith(lowerModel, "llama") THEN "meta"
        ELSE IF StartsWith(lowerModel, "mistral") \/ StartsWith(lowerModel, "mixtral")
        THEN "mistral"
        ELSE "unknown"

\* text.split('-').slice(0, 2).join('-')
Base(text) == Join(Slice(Split(text, "-"), 2), "-")

findSimilarModelsUnsliced(model, provider) ==
    IF provider \notin DOMAIN KNOWN_MODELS
    THEN <<>>
    ELSE LET providerData == KNOWN_MODELS[provider]
             lowerModel == ToLowerCase(model)
             Similar(knownModel) ==
                 LET lowerKnown == ToLowerCase(knownModel)
                     modelBase == Base(lowerModel)
                     knownBase == Base(lowerKnown)
                 IN  modelBase = knownBase \/ Includes(lowerKnown, modelBase)
         IN  SelectSeq(providerData.models, Similar)

findSimilarModels(model, provider) ==
    IF provider \notin DOMAIN KNOWN_MODELS
    THEN <<>>
    ELSE LET providerData == KNOWN_MODELS[provider]
             lowerModel == ToLowerCase(model)
             Similar(knownModel) ==
                 LET lowerKnown == ToLowerCase(knownModel)
                     modelBase == Base(lowerModel)
                     knownBase == Base(lowerKnown)
                 IN  modelBase = knownBase \/ Includes(lowerKnown, modelBase)
         IN  Slice(SelectSeq(providerData.models, Similar), 3)

\* An absent optional value.
Undefined == "undefined"

validateModelIgnoringHint(model, providerHint) ==
    LET provider == detectProvider(model)
    IN  IF provider \notin DOMAIN KNOWN_MODELS
        THEN [model |-> model, provider |-> "unknown", status |-> "unknown"]
        ELSE LET providerData == KNOWN_MODELS[provider]
                 lowerModel == ToLowerCase(model)
             IN  IF \E k \in DOMAIN providerData.models :
                        ToLowerCase(providerData.models[k]) = lowerModel
                 THEN [model |-> model, provider |-> provider, status |-> "valid"]
                 ELSE IF \E k \in DOMAIN providerData.patterns :
                            RegExpTest(providerData.patterns[k], model)
                 THEN [model |-> model, provider |-> provider,
                       status |-> "likely_valid"]
                 ELSE [model |-> model, provider |-> provider,
                       status |-> "likely_invalid",
                       suggestions |-> findSimilarModels(model, provider)]

validateModelPatternsFirst(model, providerHint) ==
    LET provider == IF providerHint # Undefined THEN providerHint
                    ELSE detectProvider(model)
    IN  IF provider \notin DOMAIN KNOWN_MODELS
        THEN [model |-> model, provider |-> "unknown", status |-> "unknown"]
        ELSE LET providerData == KNOWN_MODELS[provider]
                 lowerModel == ToLowerCase(model)
             IN  IF \E k \in DOMAIN providerData.patterns :
                        RegExpTest(providerData.patterns[k], model)
                 THEN [model |-> model, provider |-> provider,
                       status |-> "likely_valid"]
                 ELSE IF \E k \in DOMAIN providerData.models :
                            ToLowerCase(providerData.models[k]) = lowerModel
                 THEN [model |-> model, provider |-> provider, status |-> "valid"]
                 ELSE [model |-> model, provider |-> provider,
                       status |-> "likely_invalid",
                       suggestions |-> findSimilarModels(model, provider)]

\* validateModel(model, providerHint): the result without its message,
\* `suggestions` empty where the code leaves them undefined.
validateModel(model, providerHint) ==
    LET provider == IF providerHint # Undefined THEN providerHint
                    ELSE detectProvider(model)
    IN  IF provider \notin DOMAIN KNOWN_MODELS
        THEN [model |-> model, provider |-> "unknown", status |-> "unknown"]
        ELSE LET providerData == KNOWN_MODELS[provider]
                 lowerModel == ToLowerCase(model)
                 exactMatch == \E k \in DOMAIN providerData.models :
                                   ToLowerCase(providerData.models[k]) = lowerModel
                 patternMatch == \E k \in DOMAIN providerData.patterns :
                                     RegExpTest(providerData.patterns[k], model)
             IN  IF exactMatch
                 THEN [model |-> model, provider |-> provider, status |-> "valid"]
                 ELSE IF patternMatch
                 THEN [model |-> model, provider |-> provider,
                       status |-> "likely_valid"]
                 ELSE [model |-> model, provider |-> provider,
                       status |-> "likely_invalid",
                       suggestions |-> findSimilarModels(model, provider)]

\* result.message
ResultMessage(result) ==
    LET quoted == "'" \o result.model \o "'"
    IN  CASE result.status = "unknown" ->
               "Unknown provider for model " \o quoted
                   \o ". Cannot validate - the model may or may not exist."
          [] result.status = "valid" ->
               quoted \o " is a known " \o result.provider \o " model."
          [] result.status = "likely_valid" ->
               quoted \o " matches known " \o result.provider
                   \o " model patterns. It is likely valid."
          [] result.status = "likely_invalid" ->
               quoted \o " is not a recognized " \o result.provider
                   \o " model. It may not exist or may be a typo."

\* The response text: the message, and the suggestions if there are any.
ResponseMessage(result) ==
    IF "suggestions" \in DOMAIN result /\ Len(result.suggestions) > 0
    THEN ResultMessage(result) \o " Did you mean: "
             \o Join(result.suggestions, ", ") \o "?"
    ELSE ResultMessage(result)

Providers == {"openai", "anthropic", "google", "meta", "mistral"}

\* validatedInput.provider
ProviderOf(input) ==
    IF "provider" \in DOMAIN input THEN input.provider ELSE Undefined

\* validateModelNameSchema.parse(input) succeeds.
SchemaValid(input) ==
    /\ "model" \in DOMAIN input
    /\ ProviderOf(input) \in Providers \cup {Undefined}

CallValidateModelName(input) ==
    /\ Begin("validate_model_name", input)
    /\ toDelete' = <<>>
    /\ pc' = "vmn_run"

VmnRunCompleteOnly ==
    /\ pc = "vmn_run"
    /\ IF SchemaValid(args)
       THEN LET result == validateModel(args.model, ProviderOf(args))
            IN  /\ events' = Append(events, [ev |-> "progress.complete",
                                              output |-> result])
                /\ Finish(Return([success |-> TRUE,
                                  message |-> ResponseMessage(result)]))
       ELSE /\ events' = Append(events, [ev |-> "progress.error",
                                          error |-> "Invalid input parameters"])
            /\ Finish(Return([success |-> FALSE,
                              message |-> "Invalid input parameters"]))
    /\ UNCHANGED <<files, inFlight, calls, op, args, filesAtCall, smaLocals,
                   ckiLocals, hubLocals, persistent>>

\* The tool's handler: parse, reporter.start, validateModel,
\* reporter.complete and the success response, or reporter.error and the
\* error response when the input does not parse.
VmnRun ==
    /\ pc = "vmn_run"
    /\ IF SchemaValid(args)
       THEN LET result == validateModel(args.model, ProviderOf(args))
            IN  /\ events' = events \o
                       <<[ev |-> "progress.start", input |-> args],
                         [ev |-> "progress.complete", output |-> result]>>
                /\ Finish(Return([success |-> TRUE,
                                  message |-> ResponseMessage(result)]))
       ELSE /\ events' = Append(events, [ev |-> "progress.error",
                                          error |-> "Invalid input parameters"])
            /\ Finish(Return([success |-> FALSE,
                              message |-> "Invalid input parameters"]))
    /\ UNCHANGED <<files, inFlight, calls, op, args, filesAtCall, smaLocals,
                   ckiLocals, hubLocals, persistent>>

\* Model names offered to the tool, as written by the providers.
BaseModelNames ==
    {"gpt-4o", "gpt-4o-2024-08-06", "gpt-6", "gpt-4o-mni", "o3", "o1-2024-12-17",
     "claude-sonnet-4", "claude-sonnet-4-20250514", "claude-3.5-sonet",
     "claude-3-sonett",
     "gemini-2.0-flash", "gemini-2.5-pro", "llama-3.1", "llama-3.1-70b-instruct",
     "mixtral-8x7b", "mistral-large-2", "custom-model", "cohere-command",
     "palm-2"}

\* The names, and their upper-cased and capitalised spellings.
ModelNames ==
    BaseModelNames
        \cup {ToUpperCase(name) : name \in BaseModelNames}
        \cup {ToUpperCase(Head(name)) \o Tail(name) : name \in BaseModelNames}

\* What callers pass: a model with or without a provider hint, a hint the
\* schema does not list, no model at all.
ToolInputs ==
    {[model |-> name] : name \in ModelNames}
        \cup {[model |-> name, provider |-> hint] :
                 name \in ModelNames, hint \in Providers \cup {"cohere"}}
        \cup {[provider |-> "openai"]}

----------------------------------------------------------------------------
\* The caller has its answer; the next request may start.
Reset ==
    /\ pc = "done"
    /\ pc' = "idle"
    /\ op' = "none"
    /\ args' = [none |-> TRUE]
    /\ i' = 1
    /\ totalSize' = 0
    /\ storedAttachments' = <<>>
    /\ storedAttachment' = Null
    /\ error' = NoError
    /\ found' = Null
    /\ toDelete' = <<>>
    /\ outcome' = None
    /\ events' = <<>>
    /\ filesAtCall' = {}
    /\ UNCHANGED <<files, calls, inFlight, persistent>>

----------------------------------------------------------------------------
NextStore ==
    \/ \E s \in Sessions, n \in 0..MaxBatch :
         \E sizes \in [1..n -> BatchSizes] :
            CallStoreMessageAttachments(s, [k \in 1..n |-> Attachment(sizes[k])])
    \/ SmaIterate
    \/ SmaStoreResolves
    \/ SmaStoreRejects
    \/ \E n \in ItemSizes : CallStoreKnowledgeItemAttachment(Attachment(n))
    \/ SkiCheck
    \/ SkiStoreResolves
    \/ SkiStoreRejects
    \/ Reset

SpecStore == Init /\ [][NextStore]_vars

\* The attachments offered with a name and a type of their own.
NamedAttachments ==
    {ChatAttachment(n, fileName, mimeType) :
        n \in {0, 10}, fileName \in FileNames, mimeType \in MimeTypes}

\* The records a caller may hold: what the store has returned or would
\* return for an attachment, its bytes present or not, and such a record
\* carrying the data URL already made of it.
HeldRecords ==
    LET stored == {StoreResult(mode, id, BinaryData(a)) :
                      a \in {ChatAttachment(n, "notes.txt", mimeType) :
                                 n \in {0, 10}, mimeType \in MimeTypes},
                      id \in files \cup {FreshId(calls + 1, 1)}}
    IN  stored \cup
        {[r EXCEPT !.data = DataUrl(r.mimeType, BufferBase64(r))] : r \in stored}

NextRecords ==
    \/ \E s \in Sessions, a \in NamedAttachments :
         CallStoreMessageAttachments(s, <<a>>)
    \/ SmaIterate
    \/ SmaStoreResolves
    \/ SmaStoreRejects
    \/ \E a \in NamedAttachments : CallStoreKnowledgeItemAttachment(a)
    \/ SkiCheck
    \/ SkiStoreResolves
    \/ SkiStoreRejects
    \/ \E binaryData \in HeldRecords : CallGetDataUrl(binaryData)
    \/ GduCheck
    \/ GduBufferResolves
    \/ GduBufferRejects
    \/ Reset

SpecRecords == Init /\ [][NextRecords]_vars

NextValidate ==
    \/ \E input \in ToolInputs : CallValidateModelName(input)
    \/ VmnRun
    \/ Reset

SpecValidate == Init /\ [][NextValidate]_vars

\* The attachment lists the tables hold, one per owning row.
OwnedLists ==
    {<<r.attachment>> : r \in {k \in knowledgeItems : k.attachment # Null}}
        \cup {m.attachments : m \in messages}

\* What callers hand to deleteAttachments: nothing, an owner's list, or
\* such a list behind a record that was never stored externally.
DeleteInputs ==
    {<<>>} \cup OwnedLists
           \cup {<<BinaryData(Attachment(1))>> \o list : list \in OwnedLists \cup {<<>>}}

\* A message id that is in the table, or one that is not.
MessageIds == {m.id : m \in messages} \cup {calls + 1}

\* Positions in a message's attachments, and one past the longest list.
AttachmentIndexes == 0..2

\* A knowledge item id that is in the table, or one that is not.
KnowledgeItemIds == {r.id : r \in knowledgeItems} \cup {calls + 1}

Next ==
    \/ \E s \in Sessions, sizes \in MessageBatches :
         CallStoreMessageAttachments(
            s, [k \in 1..Len(sizes) |-> Attachment(sizes[k])])
    \/ SmaIterate
    \/ SmaStoreResolves
    \/ SmaStoreRejects
    \/ SaveMessage
    \/ \E u \in Users, a \in {Null} \cup {Attachment(n) : n \in ItemSizes} :
         CallCreateKnowledgeItem(u, a)
    \/ SkiCheck
    \/ SkiStoreResolves
    \/ SkiStoreRejects
    \/ CkiCreate
    \/ RepoInsertResolves
    \/ RepoInsertRejects
    \/ RepoFindResolves
    \/ RepoFindRejects
    \/ \E attachments \in DeleteInputs : CallDeleteAttachments(attachments)
    \/ DaCall
    \/ DaResolves
    \/ DaRejects
    \/ \E s \in Sessions, m \in MessageIds, k \in AttachmentIndexes :
         CallGetMessageAttachment(s, m, k)
    \/ GmFind
    \/ \E id \in KnowledgeItemIds : CallGetKnowledgeItemAttachment(id)
    \/ GkFind
    \/ RetDispatch
    \/ RetMetadataResolves
    \/ RetStreamResolves
    \/ RetBufferResolves
    \/ RetReadRejects
    \/ \E id \in KnowledgeItemIds, u \in Users : CallDeleteKnowledgeItem(id, u)
    \/ DkiGet
    \/ DkaFind
    \/ DkiDeleteRow
    \/ RowDeleteResolves
    \/ RowDeleteRejects
    \/ \E s \in Sessions : CallDeleteAllMessageAttachmentsBySessionId(s)
    \/ DasLoad
    \/ Reset

Spec == Init /\ [][Next]_vars

\* createKnowledgeItem and deleteKnowledgeItem alone.
NextKnowledgeItems ==
    \/ \E u \in Users, a \in {Null} \cup {Attachment(n) : n \in ItemSizes} :
         CallCreateKnowledgeItem(u, a)
    \/ SkiCheck
    \/ SkiStoreResolves
    \/ SkiStoreRejects
    \/ CkiCreate
    \/ RepoInsertResolves
    \/ RepoInsertRejects
    \/ RepoFindResolves
    \/ RepoFindRejects
    \/ DaCall
    \/ DaResolves
    \/ DaRejects
    \/ \E id \in KnowledgeItemIds, u \in Users : CallDeleteKnowledgeItem(id, u)
    \/ DkiGet
    \/ DkaFind
    \/ DkiDeleteRow
    \/ RowDeleteResolves
    \/ RowDeleteRejects
    \/ Reset

SpecKnowledgeItems == Init /\ [][NextKnowledgeItems]_vars

\* Ids of the rows a knowledge-item table may hold.
TableIds == 1..3

\* The tables: each id absent, or a row of one of the users.
Tables ==
    {{KnowledgeItemRow(id, owner[id], Null) : id \in present} :
        present \in SUBSET TableIds, owner \in [TableIds -> Users]}

\* The id lists asked for: empty, one id, two ids, an id twice.
IdLists == {<<>>} \cup {<<a>> : a \in TableIds} \cup {<<a, b>> : a, b \in TableIds}

\* The repository over a table that already holds rows.
InitRepository ==
    /\ mode \in Modes
    /\ files = {}
    /\ knowledgeItems \in Tables
    /\ messages = {}
    /\ calls = 0
    /\ op = "none"
    /\ pc = "idle"
    /\ args = [none |-> TRUE]
    /\ i = 1
    /\ totalSize = 0
    /\ storedAttachments = <<>>
    /\ storedAttachment = Null
    /\ error = NoError
    /\ found = Null
    /\ toDelete = <<>>
    /\ outcome = None
    /\ inFlight = {}
    /\ events = <<>>
    /\ filesAtCall = {}
    /\ modal = Unmounted
    /\ page = Unmounted
    /\ handlers = {}

NextRepository ==
    \/ \E ids \in IdLists, u \in Users : CallGetManyByIdsAndUserId(ids, u)
    \/ GmiCheck
    \/ FindResolves
    \/ FindRejects
    \/ Reset

SpecRepository == InitRepository /\ [][NextRepository]_vars

\* Ids of the knowledge items the modal may be given or may load.
ItemIds == 1..3

\* The lists of knowledge items: some of the items, each once, in any order.
ItemLists ==
    UNION {Orderings({KnowledgeItemDto(id) : id \in ids}) : ids \in SUBSET ItemIds}

\* The modal opened over some selection.
InitModal ==
    /\ mode = "default"
    /\ files = {}
    /\ knowledgeItems = {}
    /\ messages = {}
    /\ calls = 0
    /\ op = "none"
    /\ pc = "idle"
    /\ args = [none |-> TRUE]
    /\ i = 1
    /\ totalSize = 0
    /\ storedAttachments = <<>>
    /\ storedAttachment = Null
    /\ error = NoError
    /\ found = Null
    /\ toDelete = <<>>
    /\ outcome = None
    /\ inFlight = {}
    /\ events = <<>>
    /\ filesAtCall = {}
    /\ \E selected \in ItemLists : modal = MountedModal(selected)
    /\ page = Unmounted
    /\ handlers = {}

NextModal ==
    \/ \E itemId \in ItemIds : toggleItem(itemId)
    \/ handleConfirm
    \/ onCancel
    \/ \E items \in ItemLists : ModalFetchResolves(items)
    \/ ModalFetchRejects

SpecModal == InitModal /\ [][NextModal]_vars

\* The files of a drop, and of the file input's change event.
DroppedFiles == {<<>>, <<"a.txt">>, <<"a.txt", "b.txt">>}

SelectedFiles == {<<>>, <<"d.txt">>}

\* The page, mounted and loaded with one item.
InitPage ==
    /\ mode = "default"
    /\ files = {}
    /\ knowledgeItems = {}
    /\ messages = {}
    /\ calls = 0
    /\ op = "none"
    /\ pc = "idle"
    /\ args = [none |-> TRUE]
    /\ i = 1
    /\ totalSize = 0
    /\ storedAttachments = <<>>
    /\ storedAttachment = Null
    /\ error = NoError
    /\ found = Null
    /\ toDelete = <<>>
    /\ outcome = None
    /\ inFlight = {}
    /\ events = <<>>
    /\ filesAtCall = {}
    /\ modal = Unmounted
    /\ page = MountedPage(<<KnowledgeItemDto(1)>>)
    /\ handlers = {}

NextPage ==
    \/ handleClickAddItem
    \/ \E selectedFiles \in SelectedFiles : handleFileSelect(selectedFiles)
    \/ \E droppedFiles \in DroppedFiles : HandleDrop(droppedFiles)
    \/ ConvertResolves
    \/ ConvertRejects
    \/ CreateResolves
    \/ CreateRejects

SpecPage == InitPage /\ [][NextPage]_vars

----------------------------------------------------------------------------
(* Vocabulary of the properties *)

InStoreMessageAttachments == op = "storeMessageAttachments"

InStoreKnowledgeItemAttachment == op = "storeKnowledgeItemAttachment"

Returned == pc = "done" /\ outcome.type = "return"

Threw == pc = "done" /\ outcome.type = "throw"

ThrewSizeLimit(limitMB) == Threw /\ outcome.error = BadRequestError(limitMB)

ThrewAnySizeLimit == Threw /\ outcome.error.class = "BadRequest"

EventsOf(kind) == {n \in 1..Len(events) : events[n].ev = kind}

\* The store calls of this request, by the position of their attachment.
StoreCallIndexes == {events[n].index : n \in EventsOf("store.call")}

RECURSIVE PrefixBytes(_, _)
PrefixBytes(attachments, k) ==
    IF k = 0 THEN 0 ELSE PrefixBytes(attachments, k - 1) + attachments[k].bytes

TotalBytes(attachments) == PrefixBytes(attachments, Len(attachments))

\* The first position at which the running total is over the aggregate cap.
Crossing(attachments) ==
    CHOOSE k \in 1..Len(attachments) :
        /\ PrefixBytes(attachments, k) > 200 * MiB
        /\ \A j \in 1..(k - 1) : PrefixBytes(attachments, j) <= 200 * MiB

OverAggregateCap == InStoreMessageAttachments /\ TotalBytes(args.attachments) > 200 * MiB

\* The ids the binary store issued for the records in `records`.
IdsIn(records) == {records[k].id : k \in 1..Len(records)} \ {NoId}

----------------------------------------------------------------------------
(* C1: storeMessageAttachments either returns exactly one record per input
   attachment, record k being what the binary store returned for attachment
   k, or it throws and returns nothing. *)
C1_OneRecordPerInputInOrder ==
    (pc = "done" /\ InStoreMessageAttachments) =>
        \/ outcome.type = "throw"
        \/ /\ outcome.type = "return"
           /\ Len(outcome.value) = Len(args.attachments)
           /\ \A k \in 1..Len(args.attachments) :
                /\ outcome.value[k].fileSize = ToString(args.attachments[k].bytes)
                /\ \E n \in EventsOf("store.return") :
                      /\ events[n].index = k
                      /\ events[n].stored = outcome.value[k]

C1_Witness ==
    /\ InStoreMessageAttachments
    /\ Returned
    /\ Len(outcome.value) = 3
    /\ outcome.value[1].fileSize # outcome.value[3].fileSize

(* C2 as written: every list over 200 MiB in total ends in the size-limit
   error, and neither the crossing attachment nor a later one reaches the
   binary store. *)
C2_AsWritten ==
    OverAggregateCap =>
        /\ pc = "done" => ThrewSizeLimit(200)
        /\ \A k \in StoreCallIndexes : k < Crossing(args.attachments)

(* C2: every list over 200 MiB in total makes storeMessageAttachments fail,
   with the size-limit error unless a store call for an earlier attachment
   has failed first (that error then propagates), and neither the crossing
   attachment nor a later one is ever passed to the binary store. *)
C2_OverCapFailsWithoutFurtherStores ==
    OverAggregateCap =>
        /\ pc = "done" =>
              \/ ThrewSizeLimit(200)
              \/ /\ Threw
                 /\ outcome.error = StoreFailure
                 /\ \E n \in EventsOf("store.fail") :
                       events[n].index < Crossing(args.attachments)
        /\ \A k \in StoreCallIndexes : k < Crossing(args.attachments)

C2_Witness ==
    /\ OverAggregateCap
    /\ ThrewSizeLimit(200)
    /\ Crossing(args.attachments) = 2
    /\ Len(args.attachments) = 3
    /\ StoreCallIndexes = {1}

(* C3: an attachment over 50 MiB makes storeKnowledgeItemAttachment fail
   with the size-limit error before any call to the binary store: no call
   is issued and the stored bytes are unchanged. *)
C3_OversizeItemFailsBeforeAnyStore ==
    (InStoreKnowledgeItemAttachment /\ BufferLength(args.attachment) > 50 * MiB) =>
        /\ events = <<>>
        /\ inFlight = {}
        /\ files = filesAtCall
        /\ pc = "done" => ThrewSizeLimit(50)

C3_Witness ==
    /\ InStoreKnowledgeItemAttachment
    /\ BufferLength(args.attachment) = 50 * MiB + 1
    /\ ThrewSizeLimit(50)
    /\ files # {}

(* C7 as written: after a size-limit failure of either store operation no
   bytes of any attachment of that call are in the binary store. *)
C7_AsWritten ==
    (ThrewAnySizeLimit /\ (InStoreMessageAttachments \/ InStoreKnowledgeItemAttachment)) =>
        files = filesAtCall

(* C7: after a size-limit failure, no bytes of the attachment that broke the
   limit nor of any later attachment are in the binary store:
   storeKnowledgeItemAttachment has written nothing, and
   storeMessageAttachments has written exactly the attachments it accepted
   before the cap was crossed, which remain. *)
C7_SizeLimitFailureStoresNothingFurther ==
    /\ (ThrewAnySizeLimit /\ InStoreKnowledgeItemAttachment) =>
          /\ files = filesAtCall
          /\ StoreCallIndexes = {}
    /\ (ThrewAnySizeLimit /\ InStoreMessageAttachments) =>
          /\ StoreCallIndexes = 1..(Crossing(args.attachments) - 1)
          /\ files = filesAtCall \cup IdsIn(storedAttachments)

C7_Witness ==
    /\ ThrewAnySizeLimit
    /\ InStoreMessageAttachments
    /\ files # filesAtCall

(* C8: when storeMessageAttachments fails with the size-limit error at
   attachment k, the attachments 1..k-1 it stored remain in the binary
   store and no delete call is issued. *)
C8_NoRollbackOnSizeLimit ==
    (ThrewAnySizeLimit /\ InStoreMessageAttachments) =>
        /\ Len(storedAttachments) = Crossing(args.attachments) - 1
        /\ IdsIn(storedAttachments) \subseteq files
        /\ filesAtCall \subseteq files
        /\ EventsOf("delete.call") = {}
        /\ inFlight = {}

C8_Witness ==
    /\ ThrewAnySizeLimit
    /\ InStoreMessageAttachments
    /\ Crossing(args.attachments) = 3
    /\ Cardinality(IdsIn(storedAttachments)) = 2

(* C10: storeMessageAttachments is strictly sequential: at most one store
   call is in flight, and the store call for attachment k+1 is issued only
   after the one for attachment k has returned. *)
C10_StoresAreSequential ==
    InStoreMessageAttachments =>
        /\ Cardinality(Stores) <= 1
        /\ \A n \in EventsOf("store.call") :
              events[n].index > 1 =>
                 \E m \in 1..(n - 1) :
                    /\ events[m].ev = "store.return"
                    /\ events[m].index = events[n].index - 1

C10_Witness ==
    /\ InStoreMessageAttachments
    /\ pc = "sma_await"
    /\ Cardinality(Stores) = 1
    /\ i = 3

----------------------------------------------------------------------------
InRetrieval == op \in {"getMessageAttachment", "getKnowledgeItemAttachment"}

InCreateKnowledgeItem == op = "createKnowledgeItem"

InDeleteAttachments == op = "deleteAttachments"

\* A retrieval has looked its record up and has ended.
RetrievedFound == InRetrieval /\ pc = "done" /\ found # Null

(* C4 as written: retrieval of a found record yields a 'stream' result
   whenever the record's id is set, a 'buffer' result when only data is
   set, and NotFound when neither is. *)
C4_AsWritten ==
    RetrievedFound =>
        /\ found.id # NoId =>
              (Returned /\ outcome.value = Retrieved(found, "stream"))
        /\ (found.id = NoId /\ found.data # "") =>
              (Returned /\ outcome.value = Retrieved(found, "buffer"))
        /\ (found.id = NoId /\ found.data = "") =>
              (Threw /\ outcome.error.class = "NotFound")

(* C4: retrieval of a found record whose id is set (also when data is set
   too) yields a 'stream' result unless the binary store's getMetadata or
   getAsStream fails, whose error then propagates (never a 'buffer' result,
   never NotFound); with id absent and data non-empty it yields a 'buffer'
   result; with neither it fails with NotFound. *)
C4_RetrievalModeFollowsRecord ==
    RetrievedFound =>
        /\ found.id # NoId =>
              \/ Returned /\ outcome.value = Retrieved(found, "stream")
              \/ /\ Threw
                 /\ outcome.error = StoreFailure
                 /\ \E n \in EventsOf("read.fail") :
                       events[n].fn \in {"getMetadata", "getAsStream"}
        /\ (found.id = NoId /\ found.data # "") =>
              (Returned /\ outcome.value = Retrieved(found, "buffer"))
        /\ (found.id = NoId /\ found.data = "") =>
              (Threw /\ outcome.error = NotFoundError("Attachment has no stored file"))

C4_Witness ==
    /\ RetrievedFound
    /\ op = "getMessageAttachment"
    /\ found.id # NoId
    /\ found.data # ""
    /\ Returned
    /\ outcome.value.type = "stream"

\* The creation call of this request has failed.
CreateFailed == EventsOf("create.fail") # {}

(* C5: in createKnowledgeItem, when the attachment has been stored and the
   database creation then fails, deleteAttachments is invoked on the stored
   record, and the caller gets the creation error, also when the
   compensating delete fails. *)
C5_RollbackKeepsCreationError ==
    (InCreateKnowledgeItem /\ pc = "done" /\ storedAttachment # Null /\ CreateFailed) =>
        /\ \E n \in EventsOf("delete.call") :
              events[n].attachments = <<storedAttachment>>
        /\ outcome = Throw(DbFailure)

C5_Witness ==
    /\ InCreateKnowledgeItem
    /\ pc = "done"
    /\ storedAttachment # Null
    /\ storedAttachment.id # NoId
    /\ CreateFailed
    /\ EventsOf("delete.fail") # {}
    /\ outcome = Throw(DbFailure)

\* deleteAttachments was handed no record that carries an id.
NothingToDelete == InDeleteAttachments /\ BinaryDataIds(args.attachments) = <<>>

(* C6 as written: deleteAttachments on a list without any id-bearing
   record issues no delete call to the binary store and does not throw. *)
C6_AsWritten ==
    NothingToDelete =>
        /\ EventsOf("delete.call") = {}
        /\ pc = "done" => Returned

(* C6: deleteAttachments on a list without any id-bearing record (the empty
   list or only inline records) issues one delete call to the binary store,
   with an empty id list, so that no stored bytes are removed; it throws
   only if that call fails. *)
C6_NothingToDeleteRemovesNothing ==
    NothingToDelete =>
        /\ \A n \in EventsOf("delete.call") : events[n].ids = <<>>
        /\ \A c \in Deletes : c.ids = <<>>
        /\ files = filesAtCall
        /\ pc = "done" =>
              /\ Cardinality(EventsOf("delete.call")) = 1
              /\ Returned \/ (Threw /\ EventsOf("delete.fail") # {})

C6_Witness ==
    /\ NothingToDelete
    /\ Len(args.attachments) = 1
    /\ files # {}
    /\ Returned

(* C9: a compensating delete is issued only after the database create call
   it compensates for has returned with a failure; it is never in flight
   together with that create call and never issued when the create
   succeeds. *)
C9_RollbackOnlyAfterFailedCreate ==
    InCreateKnowledgeItem =>
        /\ ~(Creates # {} /\ Deletes # {})
        /\ Deletes # {} => CreateFailed
        /\ \A n \in EventsOf("delete.call") :
              \E m \in 1..(n - 1) : events[m].ev = "create.fail"
        /\ EventsOf("create.return") # {} =>
              (EventsOf("delete.call") = {} /\ Deletes = {})

C9_Witness ==
    /\ InCreateKnowledgeItem
    /\ pc = "da_await"
    /\ Deletes # {}
    /\ Creates = {}
    /\ \E n \in EventsOf("create.fail") : events[n].stage = "find"

----------------------------------------------------------------------------
InDeleteKnowledgeItem == op = "deleteKnowledgeItem"

InDeleteAllBySession == op = "deleteAllMessageAttachmentsBySessionId"

\* The rows that own the bytes the running delete flow is about.
OwningRows ==
    IF InDeleteKnowledgeItem
    THEN {r \in knowledgeItems : r.id = args.id}
    ELSE {m \in messages : m.sessionId = args.sessionId /\ IdsIn(m.attachments) # {}}

\* A delete call that names stored bytes is with the binary store.
DeletingBytes == \E c \in Deletes : c.ids # <<>>

(* C11 as written: in deleteKnowledgeItem and
   deleteAllMessageAttachmentsBySessionId the external bytes are deleted
   after the owning row has been removed: while the binary store is
   deleting them, no owning row is left in its table. *)
C11_AsWritten ==
    ((InDeleteKnowledgeItem \/ InDeleteAllBySession) /\ DeletingBytes) =>
        OwningRows = {}

(* C11: in deleteKnowledgeItem the attachment's external bytes are deleted
   first: the owning row is still in its table while the binary store
   deletes them, the row delete is issued only after that delete call has
   returned (never alongside it), and not at all when it fails.
   deleteAllMessageAttachmentsBySessionId deletes the bytes while the
   session's message rows are still in their table and removes no row. *)
C11_BytesDeletedBeforeRow ==
    /\ InDeleteKnowledgeItem =>
          /\ ~(Deletes # {} /\ RowDeletes # {})
          /\ Deletes # {} =>
                (OwningRows # {} /\ EventsOf("row.delete.call") = {})
          /\ \A n \in EventsOf("row.delete.call"), m \in EventsOf("delete.call") :
                \E k \in (m + 1)..(n - 1) : events[k].ev = "delete.return"
          /\ EventsOf("delete.fail") # {} =>
                (EventsOf("row.delete.call") = {} /\ OwningRows # {})
    /\ InDeleteAllBySession =>
          /\ \A c \in Deletes : \A id \in Range(c.ids) :
                \E m \in OwningRows : id \in IdsIn(m.attachments)
          /\ EventsOf("row.delete.call") = {}
          /\ RowDeletes = {}

C11_Witness ==
    /\ InDeleteKnowledgeItem
    /\ Returned
    /\ \E n \in EventsOf("delete.return") : events[n].ids # <<>>
    /\ EventsOf("row.delete.return") # {}
    /\ OwningRows = {}
    /\ files # filesAtCall

----------------------------------------------------------------------------
\* The ids of the records of `attachments` that carry one, in list order.
IdsInOrder(attachments) ==
    SelectSeq([k \in 1..Len(attachments) |-> attachments[k].id],
              LAMBDA id : id # NoId)

(* C13: deleteAttachments hands the binary store exactly the ids of the
   input records that carry an id, in input order, and does so in a single
   batched delete call; records without an id contribute nothing. *)
C13_OneBatchedDeleteOfTheIdsInOrder ==
    InDeleteAttachments =>
        /\ \A n \in EventsOf("delete.call") :
              events[n].ids = IdsInOrder(args.attachments)
        /\ \A c \in Deletes : c.ids = IdsInOrder(args.attachments)
        /\ Cardinality(EventsOf("delete.call")) <= 1
        /\ pc = "done" => Cardinality(EventsOf("delete.call")) = 1

C13_Witness ==
    /\ InDeleteAttachments
    /\ Returned
    /\ Len(args.attachments) = 3
    /\ args.attachments[1].id = NoId
    /\ \E n \in EventsOf("delete.call") :
          /\ Len(events[n].ids) = 2
          /\ events[n].ids[1] # events[n].ids[2]

\* The message a retrieval names is not in the table, or has no attachment
\* at the index.
MessageAttachmentAbsent ==
    /\ op = "getMessageAttachment"
    /\ \A m \in messages :
          (m.id = args.messageId /\ m.sessionId = args.sessionId) =>
              args.attachmentIndex >= Len(m.attachments)

\* The knowledge item a retrieval names is not in the table, or has no
\* attachment.
KnowledgeItemAttachmentAbsent ==
    /\ op = "getKnowledgeItemAttachment"
    /\ \A r \in knowledgeItems :
          r.id = args.knowledgeItemId => r.attachment = Null

(* C14: a retrieval whose message does not exist, whose attachment index
   has no attachment in the message, or whose knowledge item or its
   attachment is absent fails with NotFound, without any read of the binary
   store. *)
C14_AbsentIsNotFoundWithoutRead ==
    (MessageAttachmentAbsent \/ KnowledgeItemAttachmentAbsent) =>
        /\ EventsOf("read.call") = {}
        /\ Reads = {}
        /\ found = Null
        /\ pc = "done" => (Threw /\ outcome.error.class = "NotFound")

C14_Witness ==
    /\ MessageAttachmentAbsent
    /\ \E m \in messages :
          /\ m.id = args.messageId
          /\ m.sessionId = args.sessionId
          /\ Len(m.attachments) = 2
          /\ IdsIn(m.attachments) \subseteq files
          /\ IdsIn(m.attachments) # {}
    /\ Threw
    /\ outcome.error = NotFoundError("Attachment not found")

\* The external ids of the attachments of the messages of a session.
SessionIds(sessionId) ==
    UNION {IdsIn(m.attachments) : m \in {r \in messages : r.sessionId = sessionId}}

\* The external ids owned by other sessions' messages and by knowledge items.
ForeignIds(sessionId) ==
    UNION {IdsIn(m.attachments) : m \in {r \in messages : r.sessionId # sessionId}}
        \cup UNION {IdsIn(<<r.attachment>>) :
                       r \in {k \in knowledgeItems : k.attachment # Null}}

(* C17: deleteAllMessageAttachmentsBySessionId deletes exactly the external
   ids of the attachments of the given session's messages, flattened over
   all of them: the one delete call names exactly those ids, a successful
   run removes exactly them, and the stored bytes of every other session
   and of knowledge items stay as they were. *)
C17_SessionDeleteRemovesExactlyItsIds ==
    InDeleteAllBySession =>
        /\ \A n \in EventsOf("delete.call") :
              /\ Range(events[n].ids) = SessionIds(args.sessionId)
              /\ Len(events[n].ids) = Cardinality(SessionIds(args.sessionId))
        /\ files \subseteq filesAtCall
        /\ filesAtCall \ SessionIds(args.sessionId) \subseteq files
        /\ ForeignIds(args.sessionId) \cap filesAtCall \subseteq files
        /\ Returned => files = filesAtCall \ SessionIds(args.sessionId)

C17_Witness ==
    /\ InDeleteAllBySession
    /\ Returned
    /\ Cardinality(SessionIds(args.sessionId)) = 2
    /\ SessionIds(args.sessionId) \subseteq filesAtCall
    /\ files = {}

----------------------------------------------------------------------------
(* C15: every size-limit violation is reported as a BadRequest error that
   carries the limit in whole MB: 200 for the aggregate cap of
   storeMessageAttachments, 50 for storeKnowledgeItemAttachment; and no
   other failure of these operations is a BadRequest. *)
C15_SizeLimitIsBadRequestWithLimitInMB ==
    /\ (InStoreMessageAttachments /\ pc = "done" /\ totalSize > 200 * MiB) =>
          /\ Threw
          /\ outcome.error.class = "BadRequest"
          /\ EndsWith(outcome.error.message, " of 200 MB")
    /\ (InStoreKnowledgeItemAttachment /\ pc = "done"
            /\ BufferLength(args.attachment) > 50 * MiB) =>
          /\ Threw
          /\ outcome.error.class = "BadRequest"
          /\ EndsWith(outcome.error.message, " of 50 MB")
    /\ ThrewAnySizeLimit =>
          \/ /\ InStoreMessageAttachments
             /\ totalSize > 200 * MiB
             /\ Includes(outcome.error.message, "200 MB")
          \/ /\ InStoreKnowledgeItemAttachment
             /\ BufferLength(args.attachment) > 50 * MiB
             /\ Includes(outcome.error.message, "50 MB")

C15_Witness ==
    /\ InStoreMessageAttachments
    /\ Threw
    /\ outcome.error.class = "BadRequest"
    /\ outcome.error.message = "exceeds maximum size of 200 MB"
    /\ totalSize = 250 * MiB

----------------------------------------------------------------------------
InGetDataUrl == op = "getDataUrl"

(* C12: getDataUrl is idempotent: for a record whose data already starts
   with 'data:' it returns that string unchanged without reading the binary
   store, and every string it returns starts with 'data:', so that a record
   carrying its previous output gets the same string back. *)
C12_DataUrlIsIdempotent ==
    /\ (InGetDataUrl /\ StartsWith(args.binaryData.data, "data:")) =>
          /\ events = <<>>
          /\ Reads = {}
          /\ pc = "done" => outcome = Return(args.binaryData.data)
    /\ (InGetDataUrl /\ Returned) =>
          StartsWith(outcome.value, "data:")

C12_Witness ==
    /\ InGetDataUrl
    /\ Returned
    /\ outcome.value = args.binaryData.data
    /\ Includes(outcome.value, ";base64,")
    /\ args.binaryData.id # NoId
    /\ args.binaryData.id \notin files

\* The text after the last dot of a name, or the whole name without a dot.
IsFinalDotSegment(extension, name) ==
    /\ ~Includes(extension, ".")
    /\ \/ extension = name
       \/ EndsWith(name, "." \o extension)

(* C16: for every accepted attachment the record handed to the binary store
   has fileName equal to the sanitized input name, fileSize equal to the
   decimal string of the decoded byte length, and fileExtension equal to
   the final dot-separated segment of the sanitized file name. *)
C16_StoredRecordMetadata ==
    \A c \in Stores :
        LET attachment == IF InStoreMessageAttachments
                          THEN args.attachments[c.index]
                          ELSE args.attachment
        IN  /\ c.binaryData.fileName = SanitizeFilename(attachment.fileName)
            /\ c.binaryData.fileSize = ToString(attachment.bytes)
            /\ IsFinalDotSegment(c.binaryData.fileExtension, c.binaryData.fileName)

C16_Witness ==
    \E c \in Stores :
        /\ InStoreKnowledgeItemAttachment
        /\ args.attachment.fileName = "archive.tar.gz"
        /\ c.binaryData.fileExtension = "gz"
        /\ c.binaryData.fileSize = "10"

----------------------------------------------------------------------------
InValidateModelName == op = "validate_model_name"

\* The tool has validated the model and reported the result.
Completed == pc = "done" /\ EventsOf("progress.complete") # {}

\* The result the tool reported.
Output == events[CHOOSE n \in EventsOf("progress.complete") : TRUE].output

\* The provider a validation is about: the hint, or the detected one.
ResolvedProvider ==
    IF "provider" \in DOMAIN args THEN args.provider ELSE detectProvider(args.model)

\* The name is one of the provider's listed models, letter case aside.
Listed(provider, model) ==
    \E known \in Range(KNOWN_MODELS[provider].models) :
        ToLowerCase(known) = ToLowerCase(model)

\* The name matches one of the provider's patterns.
MatchesPattern(provider, model) ==
    \E pattern \in Range(KNOWN_MODELS[provider].patterns) :
        RegExpTest(pattern, model)

(* C18: model-name validation is case-insensitive: the status and the
   provider reported for a name are those reported for every re-casing of
   its letters. *)
C18_CaseInsensitive ==
    (InValidateModelName /\ Completed) =>
        \A name \in ModelNames :
            ToLowerCase(name) = ToLowerCase(args.model) =>
                LET other == validateModel(name, ProviderOf(args))
                IN  /\ other.status = Output.status
                    /\ other.provider = Output.provider

(* C19: validateModel gives every model name exactly one status, by this
   priority: 'unknown' when the provider has no known-models entry; else
   'valid' when the name equals a listed model of the provider (letter case
   aside); else 'likely_valid' when it matches one of the provider's
   patterns; else 'likely_invalid'. *)
C19_StatusByPriority ==
    (InValidateModelName /\ Completed) =>
        Output.status =
            IF ResolvedProvider \notin DOMAIN KNOWN_MODELS THEN "unknown"
            ELSE IF Listed(ResolvedProvider, args.model) THEN "valid"
            ELSE IF MatchesPattern(ResolvedProvider, args.model) THEN "likely_valid"
            ELSE "likely_invalid"

C19_Witness ==
    /\ InValidateModelName
    /\ Completed
    /\ args.model = "gpt-4o"
    /\ Listed("openai", args.model)
    /\ MatchesPattern("openai", args.model)
    /\ Output.status = "valid"

(* C20: when a provider hint is given, validateModel validates the name
   against that provider's list and patterns and reports that provider,
   whatever provider the name's prefix would be detected as. *)
C20_HintDecidesProvider ==
    (InValidateModelName /\ Completed /\ "provider" \in DOMAIN args) =>
        /\ Output.provider = args.provider
        /\ Output.status \in {"valid", "likely_valid", "likely_invalid"}
        /\ Output.status = "valid" <=> Listed(args.provider, args.model)
        /\ Output.status = "likely_valid" =>
              MatchesPattern(args.provider, args.model)
        /\ Output.status = "likely_invalid" =>
              /\ ~MatchesPattern(args.provider, args.model)
              /\ Range(Output.suggestions) \subseteq
                     Range(KNOWN_MODELS[args.provider].models)

C20_Witness ==
    /\ InValidateModelName
    /\ Completed
    /\ args = [model |-> "claude-sonnet-4", provider |-> "openai"]
    /\ detectProvider(args.model) = "anthropic"
    /\ Output.provider = "openai"
    /\ Output.status = "likely_invalid"

----------------------------------------------------------------------------
\* The text the tool gave its caller.
Response == outcome.value.message

(* C21: a 'likely_invalid' result carries at most 3 suggestions, each one a
   listed model of the resolved provider, and the response text contains
   'Did you mean' exactly when there is at least one suggestion; a result
   of any other status carries no suggestions and its text has no
   'Did you mean'. *)
C21_SuggestionsOnlyForLikelyInvalid ==
    (InValidateModelName /\ Completed) =>
        IF Output.status = "likely_invalid"
        THEN /\ Len(Output.suggestions) <= 3
             /\ Range(Output.suggestions) \subseteq
                    Range(KNOWN_MODELS[ResolvedProvider].models)
             /\ Includes(Response, "Did you mean") <=>
                    Len(Output.suggestions) >= 1
        ELSE /\ "suggestions" \notin DOMAIN Output
             /\ ~Includes(Response, "Did you mean")

\* More than three listed models are similar; three are suggested.
C21_Witness ==
    /\ InValidateModelName
    /\ Completed
    /\ args = [model |-> "claude-3-sonett"]
    /\ Output.status = "likely_invalid"
    /\ Len(findSimilarModelsUnsliced(args.model, "anthropic")) > 3
    /\ Len(Output.suggestions) = 3
    /\ Includes(Response, " Did you mean: ")

\* A likely_invalid result for which nothing similar is listed.
C21_WitnessNoSuggestion ==
    /\ InValidateModelName
    /\ Completed
    /\ Output.status = "likely_invalid"
    /\ Output.suggestions = <<>>
    /\ ~Includes(Response, "Did you mean")

----------------------------------------------------------------------------
(* C22: every invocation of validate_model_name with schema-valid input,
   whatever the status of the model, reports a start event carrying the
   input and after it a completed event, and reports no error event. *)
C22_StartThenCompleteNeverError ==
    (InValidateModelName /\ pc = "done" /\ SchemaValid(args)) =>
        /\ \E s \in EventsOf("progress.start") :
              /\ events[s].input = args
              /\ \E c \in EventsOf("progress.complete") : s < c
        /\ EventsOf("progress.error") = {}
        /\ outcome.value.success

\* An invocation for a model that is not recognised.
C22_Witness ==
    /\ InValidateModelName
    /\ pc = "done"
    /\ SchemaValid(args)
    /\ args.model = "gpt-6"
    /\ Output.status = "likely_invalid"
    /\ Len(events) = 2
    /\ events[1].ev = "progress.start"
    /\ events[2].ev = "progress.complete"

----------------------------------------------------------------------------
\* A store call of this request has failed.
StoreFailed == EventsOf("store.fail") # {}

(* C23 as written: each store operation fails if and only if the size is
   greater than its cap: a batch of at most 200 MiB in total and an item of
   at most 50 MiB are accepted, larger ones are rejected. *)
C23_AsWritten ==
    /\ (pc = "done" /\ InStoreMessageAttachments) =>
          (Threw <=> TotalBytes(args.attachments) > 200 * MiB)
    /\ (pc = "done" /\ InStoreKnowledgeItemAttachment) =>
          (Threw <=> BufferLength(args.attachment) > 50 * MiB)

(* C23: the size caps are strict upper bounds.  A batch of at most 200 MiB
   in total (exactly 200 MiB included) and an item of at most 50 MiB are
   never refused for their size: they are accepted unless a store call of
   the binary store fails, whose error then propagates.  A batch of more
   than 200 MiB (200 MiB + 1 byte included) is never accepted, and an item
   of more than 50 MiB always fails with the size-limit error.  As long as
   no store call has failed, failure is equivalent to the size being greater
   than the cap. *)
C23_CapsAreStrict ==
    /\ (pc = "done" /\ InStoreMessageAttachments) =>
          /\ ThrewAnySizeLimit => TotalBytes(args.attachments) > 200 * MiB
          /\ TotalBytes(args.attachments) > 200 * MiB => Threw
          /\ Threw =>
                \/ ThrewSizeLimit(200)
                \/ outcome.error = StoreFailure /\ StoreFailed
          /\ ~StoreFailed =>
                (Threw <=> TotalBytes(args.attachments) > 200 * MiB)
    /\ (pc = "done" /\ InStoreKnowledgeItemAttachment) =>
          /\ ThrewSizeLimit(50) <=> BufferLength(args.attachment) > 50 * MiB
          /\ Threw =>
                \/ ThrewSizeLimit(50)
                \/ outcome.error = StoreFailure /\ StoreFailed
          /\ ~StoreFailed =>
                (Threw <=> BufferLength(args.attachment) > 50 * MiB)

\* A batch of exactly 200 MiB in total is accepted.
C23_Witness ==
    /\ InStoreMessageAttachments
    /\ Returned
    /\ TotalBytes(args.attachments) = 200 * MiB
    /\ Len(outcome.value) = Len(args.attachments)

\* A batch of 200 MiB + 1 byte is refused, an item of exactly 50 MiB accepted.
C23_WitnessOneByteOver ==
    /\ InStoreMessageAttachments
    /\ ThrewSizeLimit(200)
    /\ TotalBytes(args.attachments) = 200 * MiB + 1

C23_WitnessItemAtCap ==
    /\ InStoreKnowledgeItemAttachment
    /\ Returned
    /\ BufferLength(args.attachment) = 50 * MiB

----------------------------------------------------------------------------
\* No request is under way.
Quiescent == pc \in {"idle", "done"}

\* The rows whose attachment names bytes that are not in the binary store.
DanglingRows ==
    {r \in knowledgeItems :
        /\ r.attachment # Null
        /\ r.attachment.id # NoId
        /\ r.attachment.id \notin files}

(* C24: after any sequence of createKnowledgeItem and deleteKnowledgeItem
   calls, whatever repository or binary-store step failed in them, every
   knowledge-item row whose attachment carries an external id refers to
   bytes that are present in the binary store. *)
C24_NoRowPointsAtDeletedBytes == Quiescent => DanglingRows = {}

----------------------------------------------------------------------------
\* The item deleteKnowledgeItem was called for did not exist for that user
\* when the call was made: no such row is there, and none was removed.
NotOwnedAtCall ==
    /\ InDeleteKnowledgeItem
    /\ EventsOf("row.delete.return") = {}
    /\ \A r \in knowledgeItems : ~(r.id = args.id /\ r.ownerId = args.userId)

(* C25: deleteKnowledgeItem for an id that does not exist, or that belongs
   to another user, fails with NotFound and changes nothing: no call to
   the binary store or to the repository's delete is issued, so neither
   the bytes nor the row of that id is deleted. *)
C25_NotOwnedIsNotFoundAndUntouched ==
    NotOwnedAtCall =>
        /\ pc \in {"dki_get", "done"}
        /\ pc = "done" => (Threw /\ outcome.error.class = "NotFound")
        /\ events = <<>>
        /\ inFlight = {}
        /\ files = filesAtCall

\* Another user's item, its bytes stored, is asked to be deleted.
C25_Witness ==
    /\ NotOwnedAtCall
    /\ Threw
    /\ outcome.error.class = "NotFound"
    /\ \E r \in knowledgeItems :
          /\ r.id = args.id
          /\ r.ownerId # args.userId
          /\ r.attachment # Null
          /\ r.attachment.id \in files

(* C26: in deleteKnowledgeItem a failed deletion of the attachment file
   propagates to the caller and leaves the row in the table with no row
   delete issued; a row delete is issued only when no attachment deletion
   has failed and every one that was called has returned. *)
C26_FailedFileDeleteKeepsRow ==
    InDeleteKnowledgeItem =>
        /\ EventsOf("delete.fail") # {} =>
              /\ Threw
              /\ outcome.error = StoreFailure
              /\ EventsOf("row.delete.call") = {}
              /\ RowDeletes = {}
              /\ \E r \in knowledgeItems : r.id = args.id
        /\ EventsOf("row.delete.call") # {} =>
              /\ EventsOf("delete.fail") = {}
              /\ Deletes = {}
              /\ Cardinality(EventsOf("delete.return")) =
                     Cardinality(EventsOf("delete.call"))

C26_Witness ==
    /\ InDeleteKnowledgeItem
    /\ Threw
    /\ outcome.error = StoreFailure
    /\ \E n \in EventsOf("delete.fail") : events[n].ids # <<>>
    /\ \E r \in knowledgeItems : r.id = args.id /\ r.attachment.id \in files

----------------------------------------------------------------------------
InGetManyByIdsAndUserId == op = "getManyByIdsAndUserId"

(* C30: getManyByIdsAndUserId returns the empty list without querying the
   database when the id list is empty, and otherwise returns only rows of
   the table whose id is in the given list and whose ownerId is the given
   user, never another user's item. *)
C30_OnlyListedRowsOfTheUser ==
    InGetManyByIdsAndUserId =>
        /\ args.ids = <<>> =>
              /\ EventsOf("find.call") = {}
              /\ Finds = {}
              /\ pc = "done" => (Returned /\ outcome.value = <<>>)
        /\ (args.ids # <<>> /\ Returned) =>
              /\ EventsOf("find.call") # {}
              /\ \A k \in DOMAIN outcome.value :
                    /\ outcome.value[k] \in knowledgeItems
                    /\ outcome.value[k].id \in Range(args.ids)
                    /\ outcome.value[k].ownerId = args.userId

\* Two listed ids, one the user's own and one another user's: one row.
C30_Witness ==
    /\ InGetManyByIdsAndUserId
    /\ Returned
    /\ Len(args.ids) = 2
    /\ Len(outcome.value) = 1
    /\ \E r \in knowledgeItems :
          r.id \in Range(args.ids) /\ r.ownerId # args.userId

\* The empty list is answered at once.
C30_WitnessEmpty ==
    /\ InGetManyByIdsAndUserId
    /\ Returned
    /\ args.ids = <<>>
    /\ knowledgeItems # {}
    /\ events = <<>>

----------------------------------------------------------------------------
\* The ids selected when the modal opened.
InitiallySelected == IdSet(modal.selected)

(* C27: in KnowledgeItemsSelectorModal, after any sequence of toggleItem
   calls the selected set is the initially selected ids with exactly the
   ids toggled an odd number of times flipped (an id toggled an even
   number of times keeps its initial membership); handleConfirm passes to
   onConfirm exactly the loaded knowledge items whose id is in the selected
   set, in loaded order; cancel never calls onConfirm. *)
C27_ConfirmPassesSelectedLoadedItems ==
    modal.mounted =>
        /\ \A id \in ItemIds :
              id \in modal.selectedIds <=>
                  (id \in InitiallySelected) # (id \in modal.toggled)
        /\ \A n \in EventsOf("onConfirm") :
              LET call == events[n]
              IN  /\ IdSet(call.items) =
                         IdSet(call.allKnowledgeItems) \cap call.selectedIds
                  /\ \A a, b \in DOMAIN call.items :
                        a < b =>
                            \E x, y \in DOMAIN call.allKnowledgeItems :
                                /\ x < y
                                /\ call.allKnowledgeItems[x] = call.items[a]
                                /\ call.allKnowledgeItems[y] = call.items[b]
                  /\ \A a \in DOMAIN call.items :
                        call.items[a] \in Range(call.allKnowledgeItems)
                  /\ events[n + 1] = Close("handleConfirm")
        /\ (\E n \in EventsOf("close") : events[n].from = "onCancel") =>
              EventsOf("onConfirm") = {}

\* An item selected at first was toggled off, another toggled on, and the
\* confirmation passed some but not all of the loaded items.
C27_Witness ==
    /\ modal.mounted
    /\ ~modal.open
    /\ modal.toggled \cap InitiallySelected # {}
    /\ modal.toggled \ InitiallySelected # {}
    /\ \E n \in EventsOf("onConfirm") :
          /\ Len(events[n].items) = 2
          /\ Len(events[n].allKnowledgeItems) = 3
          /\ events[n].allKnowledgeItems[1].id = 3

C27_WitnessCancel ==
    /\ modal.mounted
    /\ ~modal.open
    /\ modal.toggled # {}
    /\ events = <<Close("onCancel")>>

----------------------------------------------------------------------------
\* The positions in the log of handler h's events of one kind.
EventsOfHandler(h, kind) == {n \in EventsOf(kind) : events[n].h = h}

\* The onFilesDropped invocations started so far.
Drops == {n \in EventsOf("start") : events[n].fn = "onFilesDropped"}

\* Handler h is no longer awaiting anything.
Finished(h) == \A handler \in handlers : handler.h # h

\* Handler h's events from a failure on.
Failures(h) == EventsOfHandler(h, "convert.fail") \cup EventsOfHandler(h, "create.fail")

(* C28: onFilesDropped creates knowledge items one file at a time in list
   order: the k-th create call is for the k-th file and is made only after
   the call before it has returned; a failing file ends it, with no call
   for any later file; the items created before stay in the displayed
   list; and the success message is shown exactly when it has finished
   with every file created. *)
C28_SequentialStopAtFirstFailure ==
    \A s \in Drops :
        LET h == events[s].h
            fileList == events[s].files
            created == EventsOfHandler(h, "create.return")
            called == EventsOfHandler(h, "create.call")
            success == {n \in EventsOfHandler(h, "toast") : events[n].type = "success"}
        IN  /\ \A n \in called :
                  /\ events[n].file = fileList[events[n].k]
                  /\ \A j \in 1..(events[n].k - 1) :
                        \E c \in created : c < n /\ events[c].k = j
                  /\ \A o \in called : o < n => events[o].k < events[n].k
            /\ \A f \in Failures(h) :
                  /\ Finished(h)
                  /\ \A n \in called \cup created : n < f
                  /\ \A n \in called : events[n].k <= events[f].k
                  /\ success = {}
            /\ \A c \in created :
                  events[c].item \in Range(page.knowledgeItems)
            /\ success # {} <=>
                  (Finished(h) /\ {events[c].k : c \in created} = DOMAIN fileList)

\* Two files dropped, the second fails: the first stays in the list and
\* no success message is shown.
C28_Witness ==
    \E s \in Drops :
        LET h == events[s].h
        IN  /\ Len(events[s].files) = 2
            /\ Finished(h)
            /\ \E f \in EventsOfHandler(h, "create.fail") : events[f].k = 2
            /\ \E c \in EventsOfHandler(h, "create.return") :
                  /\ events[c].k = 1
                  /\ events[c].item \in Range(page.knowledgeItems)
            /\ \A n \in EventsOfHandler(h, "toast") : events[n].type = "error"

\* Two files dropped, the first fails: the second is never attempted.
C28_WitnessFirstFails ==
    \E s \in Drops :
        LET h == events[s].h
        IN  /\ Len(events[s].files) = 2
            /\ Finished(h)
            /\ \E f \in Failures(h) : events[f].k = 1
            /\ \A n \in EventsOfHandler(h, "create.call") : events[n].k = 1

\* Every file of a drop of two was created.
C28_WitnessSuccess ==
    \E s \in Drops :
        /\ Len(events[s].files) = 2
        /\ Finished(events[s].h)
        /\ \E n \in EventsOfHandler(events[s].h, "toast") :
              events[n].title = "2 knowledge items created"

----------------------------------------------------------------------------
(* C29: on the knowledge-items page, under any interleaving of
   handleFileSelect and onFilesDropped, isCreating is true whenever a
   creation of a knowledge item is in flight, and it is false once every
   creation that was started has finished. *)
C29_IsCreatingWhileCreating ==
    page.mounted =>
        /\ handlers # {} => page.isCreating
        /\ handlers = {} => ~page.isCreating

====
